---- MODULE Spec2Model ----
(***************************************************************************)
(* A model of the quantitative core of the CyberRisk platform:             *)
(*   cyberrisk_core/risk_metrics.py  Task1 (Monte Carlo ALE)               *)
(*   cyberrisk_core/prob_model.py    Task2 (joint probability analysis)    *)
(*   cyberrisk_core/control_optimizer.py  Task3 (regression and LP)        *)
(*   task2.py                        the legacy Task2                      *)
(*   demo.py                         the demonstration inputs              *)
(*   api/main.py, api/billing.py, api/tasks.py  the simulation endpoints,  *)
(*                                   their usage limits and run store      *)
(*                                                                         *)
(* Python floats are modelled by exact rationals n/d in lowest terms       *)
(* (d > 0); an expression that raises is modelled by a value whose err     *)
(* field names the exception.  Square roots are kept symbolic.  Where the  *)
(* rounding of each operation matters (SpecLegacy) the floats are binary   *)
(* floats with a mantissa of Precision bits, rounded to nearest-even.      *)
(***************************************************************************)
EXTENDS Integers, Sequences, FiniteSets, TLC

VARIABLES
    triArgs,    \* SpecTri: the (a, b, c) the triangular functions are applied to
    cdfSeen,    \* SpecTri: x -> triangular_cdf(x, a, b, c) once evaluated
    triStats,   \* SpecTri: MEAN_t and MEDIAN_t once evaluated
    occArgs,    \* SpecOcc: number_set and prob_set
    occStats,   \* SpecOcc: MEAN_d and VARIANCE_d once evaluated
    t2Args,     \* SpecT2: Task2's arguments num, table and probs
    t2Out,      \* SpecT2: what Task2 returned or raised
    t2Cmp,      \* SpecLegacy: what the legacy Task2 and the rounded runs gave
    rng,        \* the module-level generator of Python's random (shared)
    np_seed,    \* the seed last given to numpy's global generator
    th,         \* per thread: the Task1 call it is in, with its locals
    ref,        \* SpecSeq: a finished seeded call kept for comparison
    t3,         \* SpecTask3: the Task3 call in progress, with its locals
    store,      \* api: simulation_results, run_id -> the stored run
    usage,      \* api: the rows of usage_tracking this month, per org and type
    reqs,       \* api: per client, its token and the request it has in flight
    tasks,      \* api: the background tasks added, run_id -> queued or ran
    resp,       \* api: the response sent last, and to which client
    issued,     \* api: how many run ids uuid4 has produced
    served      \* api: how many POST /api/v1/simulate requests have arrived

triVars == <<triArgs, cdfSeen, triStats>>
occVars == <<occArgs, occStats>>
t2Vars == <<t2Args, t2Out, t2Cmp>>
t1Vars == <<rng, np_seed, th, ref>>
t3Vars == <<t3>>
apiVars == <<store, usage, reqs, tasks, resp, issued, served>>
pureVars == <<triArgs, cdfSeen, triStats, occArgs, occStats, t2Args, t2Out,
             t2Cmp, t3, store, usage, reqs, tasks, resp, issued, served>>
vars == <<triArgs, cdfSeen, triStats, occArgs, occStats, t2Args, t2Out, t2Cmp,
          rng, np_seed, th, ref, t3,
          store, usage, reqs, tasks, resp, issued, served>>

-----------------------------------------------------------------------------
(* Bounds *)

\* Triangular parameters and evaluation points range over 0..MaxVal.
MaxVal == 4
\* Occurrence tables have 1..MaxOcc rows with counts in 0..MaxCount.
MaxOcc == 2
MaxCount == 3
\* Joint tables hold at most MaxTotal cases.
MaxTotal == 2
\* Task1 is called with triangular parameters in 0..MaxTri and at most
\* MaxIter iterations.
MaxTri == 2
MaxIter == 2
\* At most MaxRequests POST /api/v1/simulate requests arrive in a behaviour.
MaxRequests == 2
\* Where rounding is modelled, a float keeps Precision significant bits.
Precision == 4

-----------------------------------------------------------------------------
(* Exact arithmetic standing for float arithmetic *)

Abs(i) == IF i < 0 THEN -i ELSE i

RECURSIVE Gcd(_, _)
Gcd(m, n) == IF n = 0 THEN m ELSE Gcd(n, m % n)

\* The number n/d, d > 0, in lowest terms.
Flt(n, d) ==
    LET g == Gcd(Abs(n), d)
    IN  [err |-> "none", n |-> n \div g, d |-> d \div g]

Raised(e) == [err |-> e, n |-> 0, d |-> 1]

IsNum(v) == v.err = "none"

\* p / q as Python evaluates it: ZeroDivisionError when q = 0.
Div(p, q) ==
    IF q = 0 THEN Raised("ZeroDivisionError")
    ELSE IF q < 0 THEN Flt(-p, -q)
    ELSE Flt(p, q)

\* 1.0 - v
OneMinus(v) == IF IsNum(v) THEN Flt(v.d - v.n, v.d) ELSE v

Leq(v, w) == v.n * w.d <= w.n * v.d
Lt(v, w) == v.n * w.d < w.n * v.d

\* v + w, v - w and v * w over the least common denominator.
Add(v, w) ==
    LET g == Gcd(v.d, w.d)
    IN  Flt(v.n * (w.d \div g) + w.n * (v.d \div g), (v.d \div g) * w.d)

Sub(v, w) == Add(v, [w EXCEPT !.n = -w.n])

Mul(v, w) ==
    LET g1 == Gcd(Abs(v.n), w.d)
        g2 == Gcd(Abs(w.n), v.d)
    IN  Flt((v.n \div g1) * (w.n \div g2), (v.d \div g2) * (w.d \div g1))

Zero == Flt(0, 1)
One == Flt(1, 1)
Half == Flt(1, 2)

InUnit(v) == IsNum(v) /\ Leq(Zero, v) /\ Leq(v, One)

\* abs(v - 0.5) < 1e-15 for v = n/d: |2n - d| * 10^15 < 2d, i.e.
\* |2n - d| <= (2d - 1) div 10^15, the divisor taken in two steps (10^8, 10^7)
\* to stay within machine integers.
NearHalf(v) == Abs(2 * v.n - v.d) <= ((2 * v.d - 1) \div 100000000) \div 10000000

-----------------------------------------------------------------------------
(* risk_metrics.py, section (1): the triangular distribution *)

\* The mutant of triangular_cdf that forgets "1.0 -" on the right branch.
triangular_cdf_noComplement(x, a, b, c) ==
    IF x <= a THEN Zero
    ELSE IF a <= x /\ x <= c THEN Div((x - a) * (x - a), (b - a) * (c - a))
    ELSE IF c < x /\ x <= b THEN Div((b - x) * (b - x), (b - a) * (b - c))
    ELSE One

\* The mutant of triangular_cdf whose first test is x < a.
triangular_cdf_strictLeft(x, a, b, c) ==
    IF x < a THEN Zero
    ELSE IF a <= x /\ x <= c THEN Div((x - a) * (x - a), (b - a) * (c - a))
    ELSE IF c < x /\ x <= b
         THEN OneMinus(Div((b - x) * (b - x), (b - a) * (b - c)))
    ELSE One

\* The mutant of triangular_cdf whose left branch divides by (c - a) alone.
triangular_cdf_noWidth(x, a, b, c) ==
    IF x <= a THEN Zero
    ELSE IF a <= x /\ x <= c THEN Div((x - a) * (x - a), c - a)
    ELSE IF c < x /\ x <= b
         THEN OneMinus(Div((b - x) * (b - x), (b - a) * (b - c)))
    ELSE One

\* triangular_cdf(x, a, b, c): a lower bound, b upper bound, c mode.
triangular_cdf(x, a, b, c) ==
    IF x <= a THEN Zero
    ELSE IF a <= x /\ x <= c THEN Div((x - a) * (x - a), (b - a) * (c - a))
    ELSE IF c < x /\ x <= b
         THEN OneMinus(Div((b - x) * (b - x), (b - a) * (b - c)))
    ELSE One

\* MEAN_t = (a + b + c) / 3.0
MEAN_t(a, b, c) == Div(a + b + c, 3)

\* The real number base + sgn * sqrt(0.5 * rad); sqrt of a negative number
\* raises ValueError (math domain error).
Surd(base, sgn, rad) ==
    IF rad < 0 THEN [err |-> "ValueError", base |-> 0, sgn |-> 0, rad |-> 0]
    ELSE [err |-> "none", base |-> base, sgn |-> sgn, rad |-> rad]

SurdRaised(e) == [err |-> e, base |-> 0, sgn |-> 0, rad |-> 0]

\* m <= k and m >= k for a surd m and an integer k.
SurdLeqInt(m, k) ==
    LET t == k - m.base
    IN  CASE m.sgn = 0 -> 0 <= t
          [] m.sgn = 1 -> t >= 0 /\ m.rad <= 2 * t * t
          [] OTHER -> t >= 0 \/ m.rad >= 2 * t * t

SurdGeqInt(m, k) ==
    LET t == k - m.base
    IN  CASE m.sgn = 0 -> t <= 0
          [] m.sgn = 1 -> t <= 0 \/ m.rad >= 2 * t * t
          [] OTHER -> t <= 0 /\ m.rad <= 2 * t * t

\* The mutant of MEDIAN_t whose right-hand branch adds the root to b.
MEDIAN_t_plusRight(a, b, c) ==
    LET F_c == Div(c - a, b - a)
    IN  IF ~IsNum(F_c) THEN SurdRaised(F_c.err)
        ELSE IF NearHalf(F_c) THEN Surd(c, 0, 0)
        ELSE IF Lt(Half, F_c) THEN Surd(a, 1, (b - a) * (c - a))
        ELSE Surd(b, 1, (b - a) * (b - c))

\* The real number rat + coef * sqrt(0.5 * rad), rat and coef rational.
SurdVal(rat, coef, rad) == [err |-> "none", rat |-> rat, coef |-> coef, rad |-> rad]

SurdValRaised(e) == [err |-> e, rat |-> Zero, coef |-> Zero, rad |-> 0]

\* (m - k)**2 / den for a surd m and integers k, den: with s the root of m,
\* (m - k)**2 = (base - k)^2 + rad/2 + 2 sgn (base - k) s.
SquareOver(m, k, den) ==
    IF den = 0 THEN SurdValRaised("ZeroDivisionError")
    ELSE SurdVal(Div(2 * (m.base - k) * (m.base - k) + m.rad, 2 * den),
                 Div(2 * m.sgn * (m.base - k), den), m.rad)

\* triangular_cdf(x, a, b, c) at a surd x = m: the same four branches, the
\* comparisons and squares taken exactly.
triangular_cdf_at(m, a, b, c) ==
    IF SurdLeqInt(m, a) THEN SurdVal(Zero, Zero, 0)
    ELSE IF SurdGeqInt(m, a) /\ SurdLeqInt(m, c)
         THEN SquareOver(m, a, (b - a) * (c - a))
    ELSE IF ~SurdLeqInt(m, c) /\ SurdLeqInt(m, b)
         THEN LET q == SquareOver(m, b, (b - a) * (b - c))
              IN  IF q.err # "none" THEN q
                  ELSE SurdVal(OneMinus(q.rat), Sub(Zero, q.coef), q.rad)
    ELSE SurdVal(One, Zero, 0)

\* The mutant of MEDIAN_t that takes the root on the wrong side of the mode.
MEDIAN_t_swappedSides(a, b, c) ==
    LET F_c == Div(c - a, b - a)
    IN  IF ~IsNum(F_c) THEN SurdRaised(F_c.err)
        ELSE IF NearHalf(F_c) THEN Surd(c, 0, 0)
        ELSE IF Lt(Half, F_c) THEN Surd(b, -1, (b - a) * (b - c))
        ELSE Surd(a, 1, (b - a) * (c - a))

\* MEDIAN_t: F_c = (c - a) / float(b - a) decides the side of the mode.
MEDIAN_t(a, b, c) ==
    LET F_c == Div(c - a, b - a)
    IN  IF ~IsNum(F_c) THEN SurdRaised(F_c.err)
        ELSE IF NearHalf(F_c) THEN Surd(c, 0, 0)
        ELSE IF Lt(Half, F_c) THEN Surd(a, 1, (b - a) * (c - a))
        ELSE Surd(b, -1, (b - a) * (b - c))

\* TriangularParams' invariant: min <= mode <= max, min < max.
ValidTri(p) == p.a <= p.c /\ p.c <= p.b /\ p.a < p.b

-----------------------------------------------------------------------------
(* risk_metrics.py, section (2): the discrete occurrence distribution *)

\* for (N_i, P_i) in zip(number_set, prob_set): zip stops at the shorter list.
ZipLen(number_set, prob_set) ==
    IF Len(number_set) <= Len(prob_set) THEN Len(number_set) ELSE Len(prob_set)

\* MEAN_d after the first k rows: MEAN_d += N_i * P_i
RECURSIVE MeanUpTo(_, _, _)
MeanUpTo(number_set, prob_set, k) ==
    IF k = 0 THEN Zero
    ELSE Add(MeanUpTo(number_set, prob_set, k - 1),
             Mul(Flt(number_set[k], 1), prob_set[k]))

\* E_X2 after the first k rows: E_X2 += (N_i**2) * P_i
RECURSIVE EX2UpTo(_, _, _)
EX2UpTo(number_set, prob_set, k) ==
    IF k = 0 THEN Zero
    ELSE Add(EX2UpTo(number_set, prob_set, k - 1),
             Mul(Flt(number_set[k] * number_set[k], 1), prob_set[k]))

MEAN_d(number_set, prob_set) ==
    MeanUpTo(number_set, prob_set, ZipLen(number_set, prob_set))

E_X2(number_set, prob_set) ==
    EX2UpTo(number_set, prob_set, ZipLen(number_set, prob_set))

\* The mutant of VARIANCE_d that returns the second moment E_X2 alone.
VARIANCE_d_secondMoment(number_set, prob_set) == E_X2(number_set, prob_set)

\* VARIANCE_d = E_X2 - (MEAN_d**2)
VARIANCE_d(number_set, prob_set) ==
    LET m == MEAN_d(number_set, prob_set)
    IN  Sub(E_X2(number_set, prob_set), Mul(m, m))

\* sum(v) of a list of numbers
RECURSIVE SumUpTo(_, _)
SumUpTo(seq, k) == IF k = 0 THEN Zero ELSE Add(SumUpTo(seq, k - 1), seq[k])

\* SimulationRequest's validators of occurrence_probabilities: the request is
\* refused when abs(sum(v) - 1.0) > 0.001 or some v < 0.
probabilities_sum_to_one(v) ==
    LET s == SumUpTo(v, Len(v))
    IN  Leq(Flt(999, 1000), s) /\ Leq(s, Flt(1001, 1000))

probabilities_non_negative(v) == \A i \in 1..Len(v) : Leq(Zero, v[i])

\* OccurrenceTable's invariant: parallel arrays, non-negative counts and
\* probabilities, sum of the probabilities within 1e-3 of 1.
ValidOcc(t) ==
    /\ Len(t.number_set) = Len(t.prob_set)
    /\ Len(t.number_set) >= 1
    /\ \A i \in 1..Len(t.number_set) : t.number_set[i] >= 0
    /\ probabilities_non_negative(t.prob_set)
    /\ probabilities_sum_to_one(t.prob_set)

-----------------------------------------------------------------------------
(* prob_model.py: Task2 *)

\* v / w for two numbers: ZeroDivisionError when w is 0.
DivF(v, w) ==
    IF w.n = 0 THEN Raised("ZeroDivisionError")
    ELSE IF w.n < 0 THEN Mul(v, Flt(-w.d, -w.n))
    ELSE Mul(v, Flt(w.d, w.n))

T2Raised(e) == [err |-> e, prob1 |-> Zero, prob2 |-> Zero, prob3 |-> Zero]

\* The mutant of Task2 that clamps P(Y=8|T) to 0 when no case has Y = 8
\* instead of dividing by Y8 / total.
Task2_clampY8(num, table, probs) ==
    LET Row(r) == table[r][1] + table[r][2] + table[r][3] + table[r][4]
        Col(c) == table[1][c] + table[2][c] + table[3][c]
        total == Row(1) + Row(2) + Row(3)
        N(m) == Flt(m, 1)
        PT_X == DivF(Add(Add(Add(Mul(probs[1], N(Col(1))),
                                 Mul(probs[2], N(Col(2)))),
                             Mul(probs[3], N(Col(3)))),
                         Mul(probs[4], N(Col(4)))), N(total))
        PT_Y67 == DivF(Add(Mul(probs[5], N(Row(1))), Mul(probs[6], N(Row(2)))),
                       N(total))
        PY8 == Div(Row(3), total)
        PT_given_Y8 == IF Row(3) = 0 THEN Zero
                       ELSE DivF(Sub(PT_X, PT_Y67), PY8)
        prob3 == DivF(Mul(PT_given_Y8, PY8), PT_X)
    IN  IF total = 0 THEN T2Raised("ZeroDivisionError")
        ELSE IF ~IsNum(prob3) THEN T2Raised(prob3.err)
        ELSE [err |-> "none",
              prob1 |-> Div(Col(2) + Col(3), total),
              prob2 |-> Div(table[1][1] + table[2][1] + table[3][1]
                            + table[1][2] + table[2][2] + table[1][3], total),
              prob3 |-> prob3]

\* The mutant of Task2 that divides by the declared total num instead of the
\* sum of the cells.
Task2_declaredTotal(num, table, probs) ==
    LET Row(r) == table[r][1] + table[r][2] + table[r][3] + table[r][4]
        Col(c) == table[1][c] + table[2][c] + table[3][c]
        total == num
        N(m) == Flt(m, 1)
        PT_X == DivF(Add(Add(Add(Mul(probs[1], N(Col(1))),
                                 Mul(probs[2], N(Col(2)))),
                             Mul(probs[3], N(Col(3)))),
                         Mul(probs[4], N(Col(4)))), N(total))
        PT_Y67 == DivF(Add(Mul(probs[5], N(Row(1))), Mul(probs[6], N(Row(2)))),
                       N(total))
        PY8 == Div(Row(3), total)
        PT_given_Y8 == DivF(Sub(PT_X, PT_Y67), PY8)
        prob3 == DivF(Mul(PT_given_Y8, PY8), PT_X)
    IN  IF total = 0 THEN T2Raised("ZeroDivisionError")
        ELSE IF ~IsNum(PT_given_Y8) THEN T2Raised(PT_given_Y8.err)
        ELSE IF ~IsNum(prob3) THEN T2Raised(prob3.err)
        ELSE [err |-> "none",
              prob1 |-> Div(Col(2) + Col(3), total),
              prob2 |-> Div(table[1][1] + table[2][1] + table[3][1]
                            + table[1][2] + table[2][2] + table[1][3], total),
              prob3 |-> prob3]

\* The mutant of Task2 that leaves the cell (X=4, Y=6) out of prob2.
Task2_withoutX4Y6(num, table, probs) ==
    LET Row(r) == table[r][1] + table[r][2] + table[r][3] + table[r][4]
        Col(c) == table[1][c] + table[2][c] + table[3][c]
        total == Row(1) + Row(2) + Row(3)
        N(m) == Flt(m, 1)
        PT_X == DivF(Add(Add(Add(Mul(probs[1], N(Col(1))),
                                 Mul(probs[2], N(Col(2)))),
                             Mul(probs[3], N(Col(3)))),
                         Mul(probs[4], N(Col(4)))), N(total))
        PT_Y67 == DivF(Add(Mul(probs[5], N(Row(1))), Mul(probs[6], N(Row(2)))),
                       N(total))
        PY8 == Div(Row(3), total)
        PT_given_Y8 == DivF(Sub(PT_X, PT_Y67), PY8)
        prob3 == DivF(Mul(PT_given_Y8, PY8), PT_X)
    IN  IF total = 0 THEN T2Raised("ZeroDivisionError")
        ELSE IF ~IsNum(PT_given_Y8) THEN T2Raised(PT_given_Y8.err)
        ELSE IF ~IsNum(prob3) THEN T2Raised(prob3.err)
        ELSE [err |-> "none",
              prob1 |-> Div(Col(2) + Col(3), total),
              prob2 |-> Div(table[1][1] + table[2][1] + table[3][1]
                            + table[1][2] + table[2][2], total),
              prob3 |-> prob3]

\* The mutant of Task2 that solves for P(T|Y=8) with the count Y8 instead of
\* the probability Y8 / total.
Task2_countY8(num, table, probs) ==
    LET Row(r) == table[r][1] + table[r][2] + table[r][3] + table[r][4]
        Col(c) == table[1][c] + table[2][c] + table[3][c]
        total == Row(1) + Row(2) + Row(3)
        N(m) == Flt(m, 1)
        PT_X == DivF(Add(Add(Add(Mul(probs[1], N(Col(1))),
                                 Mul(probs[2], N(Col(2)))),
                             Mul(probs[3], N(Col(3)))),
                         Mul(probs[4], N(Col(4)))), N(total))
        PT_Y67 == DivF(Add(Mul(probs[5], N(Row(1))), Mul(probs[6], N(Row(2)))),
                       N(total))
        PY8 == Div(Row(3), total)
        PT_given_Y8 == DivF(Sub(PT_X, PT_Y67), N(Row(3)))
        prob3 == DivF(Mul(PT_given_Y8, PY8), PT_X)
    IN  IF total = 0 THEN T2Raised("ZeroDivisionError")
        ELSE IF ~IsNum(PT_given_Y8) THEN T2Raised(PT_given_Y8.err)
        ELSE IF ~IsNum(prob3) THEN T2Raised(prob3.err)
        ELSE [err |-> "none",
              prob1 |-> Div(Col(2) + Col(3), total),
              prob2 |-> Div(table[1][1] + table[2][1] + table[3][1]
                            + table[1][2] + table[2][2] + table[1][3], total),
              prob3 |-> prob3]

\* Task2(num, table, probs); num is never read.
Task2(num, table, probs) ==
    LET a == table[1][1]  b == table[1][2]  c == table[1][3]  d == table[1][4]
        e == table[2][1]  f == table[2][2]  g == table[2][3]  h == table[2][4]
        i == table[3][1]  j == table[3][2]  k == table[3][3]  l == table[3][4]
        total == a + b + c + d + e + f + g + h + i + j + k + l
        X2 == a + e + i
        X3 == b + f + j
        X4 == c + g + k
        X5 == d + h + l
        Y6 == a + b + c + d
        Y7 == e + f + g + h
        Y8 == i + j + k + l
        prob1 == Div(X3 + X4, total)
        prob2 == Div(a + e + i + b + f + c, total)
        PX2 == probs[1]  PX3 == probs[2]  PX4 == probs[3]  PX5 == probs[4]
        PY6 == probs[5]  PY7 == probs[6]
        N(m) == Flt(m, 1)
        PT_X == DivF(Add(Add(Add(Mul(PX2, N(X2)), Mul(PX3, N(X3))),
                             Mul(PX4, N(X4))), Mul(PX5, N(X5))), N(total))
        PT_Y67 == DivF(Add(Mul(PY6, N(Y6)), Mul(PY7, N(Y7))), N(total))
        PY8 == Div(Y8, total)
        PT_given_Y8 == DivF(Sub(PT_X, PT_Y67), PY8)
        prob3 == DivF(Mul(PT_given_Y8, PY8), PT_X)
    IN  IF total = 0 THEN T2Raised("ZeroDivisionError")
        ELSE IF ~IsNum(PT_given_Y8) THEN T2Raised(PT_given_Y8.err)
        ELSE IF ~IsNum(prob3) THEN T2Raised(prob3.err)
        ELSE [err |-> "none", prob1 |-> prob1, prob2 |-> prob2, prob3 |-> prob3]

-----------------------------------------------------------------------------
(* Rounded arithmetic, and the two Task2 step by step:                     *)
(* cyberrisk_core/prob_model.py Task2 and the legacy task2.py Task2        *)

\* The one element of a singleton; it binds an operand to its value
\* before an operation is applied to it.
The(S) == CHOOSE r \in S : TRUE

\* n/d > 0 rounded to the nearest binary float of Precision significant
\* bits, ties to even; the exponent is unbounded.  n/d is scaled by 2^-e
\* into [2^(Precision-1), 2^Precision) and the mantissa m rounded there.
RECURSIVE RoundPos(_, _, _)
RoundPos(n, d, e) ==
    IF n >= d * 2^Precision THEN RoundPos(n, 2 * d, e + 1)
    ELSE IF n < d * 2^(Precision - 1) THEN RoundPos(2 * n, d, e - 1)
    ELSE LET m == n \div d
             rem == n - m * d
             up == 2 * rem > d \/ (2 * rem = d /\ m % 2 = 1)
             mantissa == IF up THEN m + 1 ELSE m
         IN  IF e >= 0 THEN Flt(mantissa * 2^e, 1) ELSE Flt(mantissa, 2^(-e))

Rnd(v) ==
    IF v.n = 0 THEN v
    ELSE IF v.n < 0 THEN Sub(Zero, RoundPos(-v.n, v.d, 0))
    ELSE RoundPos(v.n, v.d, 0)

\* The result r of an operation on v and w, rounded when fp; an operand
\* that raised is passed on.
Op(fp, v, w, r) ==
    IF ~IsNum(v) THEN v
    ELSE IF ~IsNum(w) THEN w
    ELSE The({IF fp /\ IsNum(q) THEN Rnd(q) ELSE q : q \in {r}})

AddR(fp, v, w) == The({Op(fp, x, y, Add(x, y)) : x \in {v}, y \in {w}})
SubR(fp, v, w) == The({Op(fp, x, y, Sub(x, y)) : x \in {v}, y \in {w}})
MulR(fp, v, w) == The({Op(fp, x, y, Mul(x, y)) : x \in {v}, y \in {w}})
DivR(fp, v, w) == The({Op(fp, x, y, DivF(x, y)) : x \in {v}, y \in {w}})

\* What a Task2 returns: the triple, or the first exception of its steps.
T2Result(prob1, prob2, prob3) ==
    IF ~IsNum(prob1) THEN T2Raised(prob1.err)
    ELSE IF ~IsNum(prob2) THEN T2Raised(prob2.err)
    ELSE The({IF ~IsNum(p3) THEN T2Raised(p3.err)
              ELSE [err |-> "none", prob1 |-> prob1, prob2 |-> prob2,
                    prob3 |-> p3] : p3 \in {prob3}})

\* prob_model.py Task2, operation by operation: every step divides by total.
Task2_steps(fp, num, table, probs) ==
    LET a == table[1][1]  b == table[1][2]  c == table[1][3]  d == table[1][4]
        e == table[2][1]  f == table[2][2]  g == table[2][3]  h == table[2][4]
        i == table[3][1]  j == table[3][2]  k == table[3][3]  l == table[3][4]
        N(m) == Flt(m, 1)
        total == N(a + b + c + d + e + f + g + h + i + j + k + l)
        X2 == N(a + e + i)
        X3 == N(b + f + j)
        X4 == N(c + g + k)
        X5 == N(d + h + l)
        Y6 == N(a + b + c + d)
        Y7 == N(e + f + g + h)
        Y8 == N(i + j + k + l)
        prob1 == DivR(fp, N(b + f + j + c + g + k), total)
        prob2 == DivR(fp, N(a + e + i + b + f + c), total)
        PT_X == DivR(fp, AddR(fp, AddR(fp, AddR(fp, MulR(fp, probs[1], X2),
                                                    MulR(fp, probs[2], X3)),
                                           MulR(fp, probs[3], X4)),
                                  MulR(fp, probs[4], X5)), total)
        PT_Y67 == DivR(fp, AddR(fp, MulR(fp, probs[5], Y6),
                                    MulR(fp, probs[6], Y7)), total)
        PY8 == DivR(fp, Y8, total)
        PT_given_Y8 == DivR(fp, SubR(fp, PT_X, PT_Y67), PY8)
        prob3 == DivR(fp, MulR(fp, PT_given_Y8, PY8), PT_X)
    IN  T2Result(prob1, prob2, prob3)

\* Task2 with every operation rounded.
Task2_fp(num, table, probs) == Task2_steps(TRUE, num, table, probs)

\* task2.py Task2, operation by operation: PT_X and the Y-side sum stay
\* counts and the totals are cancelled.
legacy_steps(fp, num, table, probs) ==
    LET a == table[1][1]  b == table[1][2]  c == table[1][3]  d == table[1][4]
        e == table[2][1]  f == table[2][2]  g == table[2][3]  h == table[2][4]
        i == table[3][1]  j == table[3][2]  k == table[3][3]  l == table[3][4]
        N(m) == Flt(m, 1)
        total == N(a + b + c + d + e + f + g + h + i + j + k + l)
        X2 == N(a + e + i)
        X3 == N(b + f + j)
        X4 == N(c + g + k)
        X5 == N(d + h + l)
        Y6 == N(a + b + c + d)
        Y7 == N(e + f + g + h)
        Y8 == N(i + j + k + l)
        prob1 == DivR(fp, N(b + f + j + c + g + k), total)
        prob2 == DivR(fp, N(a + e + i + b + f + c), total)
        PT_X == AddR(fp, AddR(fp, AddR(fp, MulR(fp, probs[1], X2),
                                           MulR(fp, probs[2], X3)),
                                  MulR(fp, probs[3], X4)),
                         MulR(fp, probs[4], X5))
        PT_Y67 == AddR(fp, MulR(fp, probs[5], Y6), MulR(fp, probs[6], Y7))
        PT_given_Y8 == DivR(fp, SubR(fp, PT_X, PT_Y67), Y8)
        prob3 == DivR(fp, MulR(fp, PT_given_Y8, Y8), PT_X)
    IN  T2Result(prob1, prob2, prob3)

\* The mutant of the legacy Task2 that does not cancel the totals: it
\* multiplies by the count Y8 and divides by the probability PT_X / total.
legacy_Task2_totalKept(num, table, probs) ==
    LET r == legacy_steps(FALSE, num, table, probs)
    IN  IF r.err # "none" THEN r
        ELSE [r EXCEPT !.prob3 = Mul(@, Flt(table[1][1] + table[1][2] + table[1][3]
                                                + table[1][4] + table[2][1] + table[2][2]
                                                + table[2][3] + table[2][4] + table[3][1]
                                                + table[3][2] + table[3][3] + table[3][4], 1))]

\* The legacy Task2 in exact arithmetic and with every operation rounded.
legacy_Task2(num, table, probs) == legacy_steps(FALSE, num, table, probs)

legacy_Task2_fp(num, table, probs) == legacy_steps(TRUE, num, table, probs)

-----------------------------------------------------------------------------
(* The generator behind random(), gauss() and seed() (risk_metrics.py:12).   *)
(* It is one module-level object: a state and the spare normal deviate that *)
(* gauss() keeps for its next call.  Its stream is quantised: a draw U is   *)
(* one of 0, 3/4, 15/16, kept as -log2(1 - U), and a normal deviate is one  *)
(* of -1, 0, 1.                                                             *)

RngStates == 0..7
NoGauss == [some |-> FALSE, z |-> 0]
SomeGauss(z) == [some |-> TRUE, z |-> z]

\* seed(k): a state that depends on k alone, the spare deviate dropped.
RngSeed(k) == [st |-> (3 * k + 1) % 8, gauss_next |-> NoGauss]

RngAdvance(st) == (5 * st + 3) % 8

\* -log2(1 - U) for the draw made in state st.
UExp(st) == 2 * (st % 3)

\* random(): <<the draw, the generator afterwards>>
RngRandom(g) == <<UExp(g.st), [g EXCEPT !.st = RngAdvance(g.st)]>>

\* gauss(mu, sigma) = mu + z * sigma: the spare deviate if there is one,
\* else two draws make z and a new spare.
RngGauss(g) ==
    IF g.gauss_next.some
    THEN <<g.gauss_next.z, [g EXCEPT !.gauss_next = NoGauss]>>
    ELSE LET s1 == g.st
             s2 == RngAdvance(s1)
         IN  <<((s1 + s2) % 3) - 1,
               [st |-> RngAdvance(s2),
                gauss_next |-> SomeGauss(((s1 + 2 * s2) % 3) - 1)]>>

-----------------------------------------------------------------------------
(* risk_metrics.py: Task1 *)

\* random_seed = None
NoSeed == -1

RECURSIVE Pow2(_)
Pow2(k) == IF k = 0 THEN 1 ELSE 2 * Pow2(k - 1)

\* 2^k for any integer k.
Exp2(k) == IF k >= 0 THEN Flt(Pow2(k), 1) ELSE Flt(1, Pow2(-k))

\* A = exp(gauss(mu, sigma)), with mu and sigma in units of ln 2.
LognormalA(mu, sigma, z) == Exp2(mu + z * sigma)

\* B = xm / ((1 - U)**(1.0 / alpha)), with (1 - U) = 2^-e and alpha dividing e.
ParetoB(xm, alpha, e) ==
    IF alpha = 0 THEN Raised("ZeroDivisionError")
    ELSE Mul(Flt(xm, 1), Exp2(e \div alpha))

\* sum(1 for val in total_impacts if val > point2), over the first k samples
RECURSIVE CountGreater(_, _, _)
CountGreater(total_impacts, point2, k) ==
    IF k = 0 THEN 0
    ELSE CountGreater(total_impacts, point2, k - 1)
         + (IF Lt(Flt(point2, 1), total_impacts[k]) THEN 1 ELSE 0)

\* The mutant of CountGreater that counts val >= point2.
RECURSIVE CountGreaterOrEqual(_, _, _)
CountGreaterOrEqual(total_impacts, point2, k) ==
    IF k = 0 THEN 0
    ELSE CountGreaterOrEqual(total_impacts, point2, k - 1)
         + (IF Leq(Flt(point2, 1), total_impacts[k]) THEN 1 ELSE 0)

\* sum(1 for val in total_impacts if point3 <= val <= point4)
RECURSIVE CountBetween(_, _, _, _)
CountBetween(total_impacts, point3, point4, k) ==
    IF k = 0 THEN 0
    ELSE CountBetween(total_impacts, point3, point4, k - 1)
         + (IF /\ Leq(Flt(point3, 1), total_impacts[k])
               /\ Leq(total_impacts[k], Flt(point4, 1))
            THEN 1 ELSE 0)

\* k * m for a number k and a surd m (MEDIAN_t * prob2, then MEAN_d * that).
Scaled(k, m) == [k |-> k, m |-> m]

\* The values of Task1's locals before the call reaches them.
NoLocals ==
    [prob1 |-> Zero, MEAN_t |-> Zero, MEDIAN_t |-> Surd(0, 0, 0),
     MEAN_d |-> Zero, VARIANCE_d |-> Zero, A |-> Zero, total_impacts |-> <<>>]

NoArgs ==
    [a |-> 0, b |-> 0, c |-> 0, point1 |-> 0, number_set |-> <<>>,
     prob_set |-> <<>>, num |-> 0, point2 |-> 0, mu |-> 0, sigma |-> 0,
     xm |-> 0, alpha |-> 0, point3 |-> 0, point4 |-> 0, random_seed |-> NoSeed]

NoResult == <<>>

Idle == [pc |-> "idle", args |-> NoArgs, loc |-> NoLocals, err |-> "none",
         result |-> NoResult]

Threads == DOMAIN th

\* A caller enters Task1 with arguments drawn from argSet.
Call(t, argSet) ==
    /\ th[t].pc = "idle"
    /\ \E args \in argSet :
          th' = [th EXCEPT ![t] = [Idle EXCEPT !.pc = "seed", !.args = args]]
    /\ UNCHANGED <<rng, np_seed, ref, pureVars>>

\* The mutant of SeedStep that seeds numpy's generator only.
SeedStepNumpyOnly(t) ==
    /\ th[t].pc = "seed"
    /\ IF th[t].args.random_seed # NoSeed
       THEN rng' = rng /\ np_seed' = th[t].args.random_seed
       ELSE UNCHANGED <<rng, np_seed>>
    /\ th' = [th EXCEPT ![t].pc = "stats"]
    /\ UNCHANGED <<ref, pureVars>>

\* if random_seed is not None: seed(random_seed); np.random.seed(random_seed)
SeedStep(t) ==
    /\ th[t].pc = "seed"
    /\ IF th[t].args.random_seed # NoSeed
       THEN /\ rng' = RngSeed(th[t].args.random_seed)
            /\ np_seed' = th[t].args.random_seed
       ELSE UNCHANGED <<rng, np_seed>>
    /\ th' = [th EXCEPT ![t].pc = "stats"]
    /\ UNCHANGED <<ref, pureVars>>

\* Sections (1) and (2): prob1, MEAN_t, MEDIAN_t, MEAN_d, VARIANCE_d.  The
\* first expression that raises ends the call.
StatsStep(t) ==
    LET g == th[t].args
        prob1 == triangular_cdf(g.point1, g.a, g.b, g.c)
        median == MEDIAN_t(g.a, g.b, g.c)
        raised == IF ~IsNum(prob1) THEN prob1.err ELSE median.err
    IN  /\ th[t].pc = "stats"
        /\ IF raised # "none"
           THEN th' = [th EXCEPT ![t].pc = "raised", ![t].err = raised]
           ELSE th' = [th EXCEPT
                    ![t].pc = IF g.num > 0 THEN "gauss" ELSE "post",
                    ![t].loc = [NoLocals EXCEPT
                        !.prob1 = prob1,
                        !.MEAN_t = MEAN_t(g.a, g.b, g.c),
                        !.MEDIAN_t = median,
                        !.MEAN_d = MEAN_d(g.number_set, g.prob_set),
                        !.VARIANCE_d = VARIANCE_d(g.number_set, g.prob_set)]]
        /\ UNCHANGED <<rng, np_seed, ref, pureVars>>

\* A = exp(gauss(mu, sigma))
GaussStep(t) ==
    LET d == RngGauss(rng)
    IN  /\ th[t].pc = "gauss"
        /\ rng' = d[2]
        /\ th' = [th EXCEPT
                 ![t].pc = "pareto",
                 ![t].loc.A = LognormalA(th[t].args.mu, th[t].args.sigma, d[1])]
        /\ UNCHANGED <<np_seed, ref, pureVars>>

\* U = random(); B = ...; total_impacts.append(A + B); the loop test
ParetoStep(t) ==
    LET d == RngRandom(rng)
        B == ParetoB(th[t].args.xm, th[t].args.alpha, d[1])
        samples == Append(th[t].loc.total_impacts, Add(th[t].loc.A, B))
    IN  /\ th[t].pc = "pareto"
        /\ rng' = d[2]
        /\ IF ~IsNum(B)
           THEN th' = [th EXCEPT ![t].pc = "raised", ![t].err = B.err]
           ELSE th' = [th EXCEPT
                    ![t].pc = IF Len(samples) < th[t].args.num
                              THEN "gauss" ELSE "post",
                    ![t].loc.total_impacts = samples]
        /\ UNCHANGED <<np_seed, ref, pureVars>>

\* The mutant of ResultTuple that returns prob3 before prob2.
ResultTupleSwapped(l, prob2, prob3) ==
    <<l.prob1, l.MEAN_t, l.MEDIAN_t, l.MEAN_d, l.VARIANCE_d, prob3, prob2,
      Scaled(Mul(l.MEAN_d, prob2), l.MEDIAN_t)>>

\* ALE = MEAN_d * (MEDIAN_t * prob2) and the tuple Task1 returns.
ResultTuple(l, prob2, prob3) ==
    <<l.prob1, l.MEAN_t, l.MEDIAN_t, l.MEAN_d, l.VARIANCE_d, prob2, prob3,
      Scaled(Mul(l.MEAN_d, prob2), l.MEDIAN_t)>>

\* The mutant of PostStep that reports zero shares when no sample was asked
\* for instead of dividing by num.
PostStepNoSamples(t) ==
    LET g == th[t].args
        l == th[t].loc
        n == Len(l.total_impacts)
        prob2 == IF g.num = 0 THEN Zero
                 ELSE Div(CountGreater(l.total_impacts, g.point2, n), g.num)
        prob3 == IF g.num = 0 THEN Zero
                 ELSE Div(CountBetween(l.total_impacts, g.point3, g.point4, n),
                          g.num)
    IN  /\ th[t].pc = "post"
        /\ IF ~IsNum(prob2)
           THEN th' = [th EXCEPT ![t].pc = "raised", ![t].err = prob2.err]
           ELSE th' = [th EXCEPT ![t].pc = "returned",
                                 ![t].result = ResultTuple(l, prob2, prob3)]
        /\ UNCHANGED <<rng, np_seed, ref, pureVars>>

\* prob2, prob3, ALE and the return.
PostStep(t) ==
    LET g == th[t].args
        l == th[t].loc
        n == Len(l.total_impacts)
        prob2 == Div(CountGreater(l.total_impacts, g.point2, n), g.num)
        prob3 == Div(CountBetween(l.total_impacts, g.point3, g.point4, n), g.num)
    IN  /\ th[t].pc = "post"
        /\ IF ~IsNum(prob2)
           THEN th' = [th EXCEPT ![t].pc = "raised", ![t].err = prob2.err]
           ELSE th' = [th EXCEPT ![t].pc = "returned",
                                 ![t].result = ResultTuple(l, prob2, prob3)]
        /\ UNCHANGED <<rng, np_seed, ref, pureVars>>

Finished(t) == th[t].pc \in {"returned", "raised"}

\* The caller takes the tuple or the exception; the thread is free again.
Return(t) ==
    /\ Finished(t)
    /\ th' = [th EXCEPT ![t] = Idle]
    /\ UNCHANGED <<rng, np_seed, ref, pureVars>>

\* What a finished call handed to its caller.
Outcome(t) == [err |-> th[t].err, result |-> th[t].result]

\* SimulationRequest without the triangular and occurrence parts: at least
\* one iteration, sigma > 0, xm > 0, alpha > 0.
ValidImpact(g) == g.num >= 1 /\ g.sigma > 0 /\ g.xm > 0 /\ g.alpha > 0

ValidRequest(g) ==
    /\ ValidTri(g)
    /\ ValidOcc(g)
    /\ ValidImpact(g)

-----------------------------------------------------------------------------
(* control_optimizer.py: Task3, and its legacy copy task3.py *)

Num(m) == Flt(m, 1)

\* max(i, j)
Max(i, j) == IF i >= j THEN i ELSE j

\* range(4): the four control types
Controls == 1..4

\* The candidate weight vectors (intercept, then one coefficient for each
\* control) of the safeguard model and of the maintenance model: a control
\* may add nothing to the safeguard effect, and may lower the maintenance
\* load.
SafeguardFits == {<<1, p, q, 1, 0>> : p \in 0..2, q \in 0..1}

MaintenanceFits == {<<1, p, q, 1, 0>> : p \in (-1)..1, q \in 0..1}

Fits == SafeguardFits \cup MaintenanceFits

\* Row k of X_design times the weights w: the intercept and the counts of
\* the four controls in observation k.
Predict(w, x, k) ==
    w[1] + w[2] * x[1][k] + w[3] * x[2][k] + w[4] * x[3][k] + w[5] * x[4][k]

\* The sum of the squared residuals of the first k observations.
RECURSIVE Residual2(_, _, _, _)
Residual2(w, x, y, k) ==
    IF k = 0 THEN 0
    ELSE Residual2(w, x, y, k - 1)
         + (Predict(w, x, k) - y[k]) * (Predict(w, x, k) - y[k])

\* The weight vectors the least-squares search ranges over: Fits, and the
\* same with a unit coefficient for the last control.
Candidates == Fits \cup {[w EXCEPT ![5] = 1] : w \in Fits}

\* The squared norm of a weight vector.
Norm2(w) == w[1] * w[1] + w[2] * w[2] + w[3] * w[3] + w[4] * w[4] + w[5] * w[5]

\* np.linalg.lstsq(X_design, y, rcond=None)[0]: the weights with the least
\* squared residual and, when the design matrix is rank-deficient and
\* several weight vectors reach it, the one of least norm; no rank raises.
\* The histories of the model lie on the plane of one of Fits, so the
\* minimiser is among Candidates.
lstsq(x, y) ==
    LET residuals == {Residual2(w, x, y, Len(y)) : w \in Candidates}
        least == CHOOSE r \in residuals : \A q \in residuals : r <= q
        fitting == {w \in Candidates : Residual2(w, x, y, Len(y)) = least}
    IN  CHOOSE w \in fitting : \A v \in fitting : Norm2(w) <= Norm2(v)

\* np.dot(w[1:], v)
Dot4(w, v) == w[2] * v[1] + w[3] * v[2] + w[4] * v[3] + w[5] * v[4]

\* The mutant of safeguard_gap that subtracts the target from the level.
safeguard_gap_reversed(se_bound, weights_b, x_initial) ==
    (weights_b[1] + Dot4(weights_b, x_initial)) - se_bound

\* safeguard_gap = se_bound - current_safeguard
safeguard_gap(se_bound, weights_b, x_initial) ==
    se_bound - (weights_b[1] + Dot4(weights_b, x_initial))

\* maintenance_gap = ml_bound - current_maintenance
maintenance_gap(ml_bound, weights_d, x_initial) ==
    ml_bound - (weights_d[1] + Dot4(weights_d, x_initial))

\* A_ub = [-weights_b[1:], weights_d[1:]]
A_ub(weights_b, weights_d) ==
    <<[i \in Controls |-> -weights_b[i + 1]],
      [i \in Controls |-> weights_d[i + 1]]>>

\* The mutant of b_ub that keeps the safeguard gap's sign.
b_ub_sameSign(gap_s, gap_m) == <<gap_s, gap_m>>

\* b_ub = [-safeguard_gap, maintenance_gap]
b_ub(gap_s, gap_m) == <<-gap_s, gap_m>>

\* The mutant of upper_bound that forgets the controls already deployed.
upper_bound_noCurrent(x_bound, x_initial, i) == Max(0, x_bound[i])

\* upper_bound = max(0, x_bound[i] - x_initial[i])
upper_bound(x_bound, x_initial, i) == Max(0, x_bound[i] - x_initial[i])

\* bounds: the lower bound of every variable is 0.
bounds(x_bound, x_initial) ==
    [i \in Controls |-> upper_bound(x_bound, x_initial, i)]

\* task3.py: bounds.append((0, x_bound[i] - x_initial[i]))
legacy_bounds(x_bound, x_initial) ==
    [i \in Controls |-> x_bound[i] - x_initial[i]]

\* a . p for integer vectors, and a . x for a vector x of numbers.
RowDot(a, p) == a[1] * p[1] + a[2] * p[2] + a[3] * p[3] + a[4] * p[4]

RowDotF(a, x) ==
    Add(Add(Add(Mul(Num(a[1]), x[1]), Mul(Num(a[2]), x[2])),
            Mul(Num(a[3]), x[3])), Mul(Num(a[4]), x[4]))

\* The basic solutions of the program  A x <= b, 0 <= x <= ub: every
\* variable sits at one of its bounds, except at most two that are fixed by
\* rows of A holding with equality.
Corners(ub) ==
    {[i \in Controls |-> IF s[i] THEN ub[i] ELSE 0] : s \in [Controls -> BOOLEAN]}

AtCorner(p) == [i \in Controls |-> Num(p[i])]

OneFree(A, b, ub) ==
    {[i \in Controls |->
         IF i = q[2]
         THEN Div(b[q[3]] - RowDot(A[q[3]], [q[1] EXCEPT ![q[2]] = 0]),
                  A[q[3]][q[2]])
         ELSE Num(q[1][i])] :
       q \in {u \in Corners(ub) \X Controls \X (1..2) : A[u[3]][u[2]] # 0}}

TwoFreePoint(A, b, p, i, j) ==
    LET p0 == [p EXCEPT ![i] = 0, ![j] = 0]
        r1 == b[1] - RowDot(A[1], p0)
        r2 == b[2] - RowDot(A[2], p0)
        det == A[1][i] * A[2][j] - A[1][j] * A[2][i]
    IN  [k \in Controls |->
            IF k = i THEN Div(r1 * A[2][j] - A[1][j] * r2, det)
            ELSE IF k = j THEN Div(A[1][i] * r2 - r1 * A[2][i], det)
            ELSE Num(p[k])]

TwoFree(A, b, ub) ==
    {TwoFreePoint(A, b, q[1], q[2], q[3]) :
       q \in {u \in Corners(ub) \X Controls \X Controls :
                 /\ u[2] < u[3]
                 /\ A[1][u[2]] * A[2][u[3]] - A[1][u[3]] * A[2][u[2]] # 0}}

BasicSolutions(A, b, ub) ==
    {AtCorner(p) : p \in Corners(ub)} \cup OneFree(A, b, ub) \cup TwoFree(A, b, ub)

Satisfies(x, A, b, ub) ==
    /\ \A r \in 1..2 : Leq(RowDotF(A[r], x), Num(b[r]))
    /\ \A i \in Controls : Leq(Zero, x[i]) /\ Leq(x[i], Num(ub[i]))

\* result.x of a program without a solution
NoX == <<>>

\* linprog(c, A_ub=A, b_ub=b, bounds=(0, ub), method='highs'): the results
\* the solver may hand back.  The feasible set lies in a box, so the
\* program is infeasible or has an optimal basic solution; which of several
\* optimal ones is returned is the solver's choice.
linprog(c, A, b, ub) ==
    LET feasible == {x \in BasicSolutions(A, b, ub) : Satisfies(x, A, b, ub)}
        costs == {RowDotF(c, x) : x \in feasible}
        least == CHOOSE m \in costs : \A n \in costs : Leq(m, n)
        optimal == {x \in feasible : RowDotF(c, x) = least}
    IN  IF feasible = {}
        THEN {[success |-> FALSE, x |-> NoX]}
        ELSE {[success |-> TRUE, x |-> x] : x \in optimal}

NoWeights == <<>>

NoTask3Args ==
    [x |-> <<>>, y |-> <<>>, z |-> <<>>, x_initial |-> <<>>, c |-> <<>>,
     x_bound |-> <<>>, se_bound |-> 0, ml_bound |-> 0]

T3Idle ==
    [pc |-> "idle", legacy |-> FALSE, args |-> NoTask3Args,
     weights_b |-> NoWeights, weights_d |-> NoWeights, success |-> FALSE,
     err |-> "none", result |-> NoResult]

\* A caller enters Task3 of control_optimizer.py, or of task3.py, with
\* arguments drawn from argSet.
Task3Call(legacy, argSet) ==
    /\ t3.pc = "idle"
    /\ \E args \in argSet :
          t3' = [T3Idle EXCEPT !.pc = "regress", !.legacy = legacy,
                               !.args = args]
    /\ UNCHANGED <<triVars, occVars, t2Vars, t1Vars, apiVars>>

\* weights_b and weights_d by least squares.
Regress ==
    /\ t3.pc = "regress"
    /\ t3' = [t3 EXCEPT !.pc = "solve",
                        !.weights_b = lstsq(t3.args.x, t3.args.y),
                        !.weights_d = lstsq(t3.args.x, t3.args.z)]
    /\ UNCHANGED <<triVars, occVars, t2Vars, t1Vars, apiVars>>

\* control_optimizer.py: the gaps, the program and its solution; a result
\* without success raises ValueError, which the handler raises again.
Solve ==
    LET g == t3.args
        gap_s == safeguard_gap(g.se_bound, t3.weights_b, g.x_initial)
        gap_m == maintenance_gap(g.ml_bound, t3.weights_d, g.x_initial)
    IN  /\ t3.pc = "solve"
        /\ ~t3.legacy
        /\ \E result \in linprog(g.c, A_ub(t3.weights_b, t3.weights_d),
                                 b_ub(gap_s, gap_m),
                                 bounds(g.x_bound, g.x_initial)) :
              IF ~result.success
              THEN t3' = [t3 EXCEPT !.pc = "raised", !.err = "ValueError"]
              ELSE t3' = [t3 EXCEPT
                            !.pc = "returned", !.success = TRUE,
                            !.result = <<t3.weights_b, t3.weights_d, result.x>>]
        /\ UNCHANGED <<triVars, occVars, t2Vars, t1Vars, apiVars>>

\* task3.py: the same program, and res.x returned whatever the solver said.
LegacySolve ==
    LET g == t3.args
        gap_s == safeguard_gap(g.se_bound, t3.weights_b, g.x_initial)
        gap_m == maintenance_gap(g.ml_bound, t3.weights_d, g.x_initial)
    IN  /\ t3.pc = "solve"
        /\ t3.legacy
        /\ \E res \in linprog(g.c, A_ub(t3.weights_b, t3.weights_d),
                              b_ub(gap_s, gap_m),
                              legacy_bounds(g.x_bound, g.x_initial)) :
              t3' = [t3 EXCEPT
                       !.pc = "returned", !.success = res.success,
                       !.result = <<t3.weights_b, t3.weights_d, res.x>>]
        /\ UNCHANGED <<triVars, occVars, t2Vars, t1Vars, apiVars>>

Task3Finished == t3.pc \in {"returned", "raised"}

\* The caller takes the tuple or the exception.
Task3Return ==
    /\ Task3Finished
    /\ t3' = T3Idle
    /\ UNCHANGED <<triVars, occVars, t2Vars, t1Vars, apiVars>>

-----------------------------------------------------------------------------
(* api/main.py, api/billing.py, api/tasks.py: the simulation endpoints,    *)
(* the in-memory results store, usage metering and the background task.    *)
(* Handlers are coroutines on one event loop: a handler runs atomically    *)
(* from one database await to the next, and other handlers run in between. *)

Clients == 1..2

UsageTypes == {"simulations", "simulations_per_month", "pdf_downloads"}

\* BillingService.get_usage_limits(tier): an unknown tier gets the starter
\* limits; -1 is unlimited.
get_usage_limits(tier) ==
    CASE tier = "pro" ->
           [simulations_per_month |-> 500, max_iterations |-> 500000,
            pdf_downloads |-> 100]
      [] tier = "enterprise" ->
           [simulations_per_month |-> -1, max_iterations |-> -1,
            pdf_downloads |-> -1]
      [] OTHER ->
           [simulations_per_month |-> 50, max_iterations |-> 50000,
            pdf_downloads |-> 10]

\* limits.get(usage_type); "simulations" is not a key of the limits (None).
NoLimit == -2
LimitOf(tier, usage_type) ==
    CASE usage_type = "simulations_per_month" ->
           get_usage_limits(tier).simulations_per_month
      [] usage_type = "pdf_downloads" -> get_usage_limits(tier).pdf_downloads
      [] OTHER -> NoLimit

\* BillingService._get_current_usage: COUNT(*) of the org's rows of exactly
\* this usage_type in the current month.
current_usage(org_id, usage_type) == usage[org_id][usage_type]

\* BillingService.check_usage_limit: TRUE when unlimited without reading the
\* database; otherwise current_usage < limit, or the database error raised.
check_usage_limit(org_id, tier, usage_type, dbOk) ==
    LET limit == LimitOf(tier, usage_type)
    IN  IF limit = -1 THEN "within"
        ELSE IF ~dbOk THEN "error"
        ELSE IF limit = NoLimit THEN "error"
        ELSE IF current_usage(org_id, usage_type) < limit THEN "within"
        ELSE "exceeded"

\* BillingService.record_usage: one row more, unless the insert fails; the
\* failure is logged and False returned, which no caller reads.
record_usage(org_id, usage_type, dbOk) ==
    IF dbOk THEN [usage EXCEPT ![org_id][usage_type] = @ + 1] ELSE usage

\* What the client of start_simulation is sent when the body of its try
\* block raises: except Exception catches every exception, HTTPException
\* included, and raises HTTPException(500).
Caught(status) == 500

\* SimulationRequest.iterations: ge=1000, le=1000000.
Iterations == {10000, 100000}

NoRun == 0
NoUser == [sub |-> "none", org_id |-> "none", tier |-> "none"]
IdleRequest(user) == [user |-> user, pc |-> "idle", iterations |-> 0, run_id |-> NoRun]

\* A response: the client, the endpoint, the run it is about, the status
\* code, and the status of the HTTPException the handler raised itself
\* (0 if none).
Response(c, op, run, code, raised) ==
    [client |-> c, op |-> op, run |-> run, code |-> code, raised |-> raised]
NoResponse == Response(0, "none", NoRun, 0, 0)

\* start_simulation up to the end of await check_usage_limit(...): the
\* monthly limit is checked under the usage type "simulations_per_month".
CheckLimit(c) ==
    /\ reqs[c].pc = "idle"
    /\ served < MaxRequests
    /\ served' = served + 1
    /\ \E it \in Iterations, dbOk \in BOOLEAN :
          LET u == reqs[c].user
              within == check_usage_limit(u.org_id, u.tier,
                                          "simulations_per_month", dbOk)
          IN  CASE within = "within" ->
                     /\ reqs' = [reqs EXCEPT ![c].pc = "checked",
                                             ![c].iterations = it]
                     /\ resp' = resp
                [] within = "exceeded" ->
                     /\ reqs' = reqs
                     /\ resp' = Response(c, "simulate", NoRun, Caught(429), 429)
                [] OTHER ->
                     /\ reqs' = reqs
                     /\ resp' = Response(c, "simulate", NoRun, Caught(0), 0)
    /\ UNCHANGED <<store, usage, tasks, issued>>
    /\ UNCHANGED <<triVars, occVars, t2Vars, t1Vars, t3Vars>>

\* start_simulation from the iteration limit to the end of
\* await billing_service.record_usage(user_org_id, "simulations", 1).
RecordUsage(c) ==
    /\ reqs[c].pc = "checked"
    /\ LET u == reqs[c].user
           max_iterations == get_usage_limits(u.tier).max_iterations
       IN  IF max_iterations # -1 /\ reqs[c].iterations > max_iterations
           THEN /\ reqs' = [reqs EXCEPT ![c] = IdleRequest(u)]
                /\ resp' = Response(c, "simulate", NoRun, Caught(400), 400)
                /\ UNCHANGED <<usage, issued>>
           ELSE /\ issued' = issued + 1
                /\ reqs' = [reqs EXCEPT ![c].pc = "recorded",
                                        ![c].run_id = issued + 1]
                /\ \E dbOk \in BOOLEAN :
                      usage' = record_usage(u.org_id, "simulations", dbOk)
                /\ resp' = resp
    /\ UNCHANGED <<store, tasks, served>>
    /\ UNCHANGED <<triVars, occVars, t2Vars, t1Vars, t3Vars>>

\* start_simulation to its return: the run is stored as pending under the
\* caller's sub, the background task is added and the run_id returned.
StoreAndQueue(c) ==
    /\ reqs[c].pc = "recorded"
    /\ LET u == reqs[c].user
           run_id == reqs[c].run_id
       IN  /\ store' = (run_id :> [status |-> "pending", user_id |-> u.sub]) @@ store
           /\ tasks' = (run_id :> [pc |-> "queued", org_id |-> u.org_id]) @@ tasks
           /\ resp' = Response(c, "simulate", run_id, 200, 0)
           /\ reqs' = [reqs EXCEPT ![c] = IdleRequest(u)]
    /\ UNCHANGED <<usage, issued, served>>
    /\ UNCHANGED <<triVars, occVars, t2Vars, t1Vars, t3Vars>>

\* The background task of a run: run_simulation_task(run_id, parameters,
\* org_id) is called with the keywords run_id, request_data and
\* results_store, which raises TypeError before its body runs; and its body
\* writes the outcome to the database, never to simulation_results.
RunTask(r) ==
    /\ r \in DOMAIN tasks
    /\ tasks[r].pc = "queued"
    /\ tasks' = [tasks EXCEPT ![r].pc = "ran"]
    /\ UNCHANGED <<store, usage, reqs, resp, issued, served>>
    /\ UNCHANGED <<triVars, occVars, t2Vars, t1Vars, t3Vars>>

\* The mutant of Access that does not compare the caller with the owner.
Access_anyCaller(r, user) ==
    IF r \notin DOMAIN store THEN 404
    ELSE 200

\* The check the three results endpoints begin with: 404 for a run_id not
\* in simulation_results, 403 when the stored user_id is not the token's
\* sub, 200 otherwise.
Access(r, user) ==
    IF r \notin DOMAIN store THEN 404
    ELSE IF store[r].user_id # user.sub THEN 403
    ELSE 200

\* GET /api/v1/results/{run_id}
GetResults(c, r) ==
    /\ reqs[c].pc = "idle"
    /\ resp' = LET code == Access(r, reqs[c].user)
               IN  Response(c, "get", r, code, IF code = 200 THEN 0 ELSE code)
    /\ UNCHANGED <<store, usage, reqs, tasks, issued, served>>
    /\ UNCHANGED <<triVars, occVars, t2Vars, t1Vars, t3Vars>>

\* DELETE /api/v1/results/{run_id}
DeleteSimulation(c, r) ==
    /\ reqs[c].pc = "idle"
    /\ LET code == Access(r, reqs[c].user)
       IN  /\ resp' = Response(c, "delete", r, code, IF code = 200 THEN 0 ELSE code)
           /\ store' = IF code = 200
                       THEN [x \in DOMAIN store \ {r} |-> store[x]]
                       ELSE store
    /\ UNCHANGED <<usage, reqs, tasks, issued, served>>
    /\ UNCHANGED <<triVars, occVars, t2Vars, t1Vars, t3Vars>>

\* GET /api/v1/results/{run_id}/pdf: after the access check, 400 unless the
\* run is completed, 429 over the pdf_downloads limit, then the PDF (200)
\* with its usage recorded, or 500 when rendering fails.
DownloadPdf(c, r) ==
    /\ reqs[c].pc = "idle"
    /\ LET u == reqs[c].user
           code == Access(r, u)
       IN  IF code # 200
           THEN /\ resp' = Response(c, "pdf", r, code, code)
                /\ usage' = usage
           ELSE IF store[r].status # "completed"
           THEN /\ resp' = Response(c, "pdf", r, 400, 400)
                /\ usage' = usage
           ELSE \E dbOk \in BOOLEAN, pdfOk \in BOOLEAN :
                   LET within == check_usage_limit(u.org_id, u.tier,
                                                   "pdf_downloads", dbOk)
                   IN  CASE within = "exceeded" ->
                              /\ resp' = Response(c, "pdf", r, 429, 429)
                              /\ usage' = usage
                         [] within = "within" /\ pdfOk ->
                              /\ resp' = Response(c, "pdf", r, 200, 0)
                              /\ \E dbOk2 \in BOOLEAN :
                                    usage' = record_usage(u.org_id,
                                                          "pdf_downloads", dbOk2)
                         [] OTHER ->
                              /\ resp' = Response(c, "pdf", r, 500, 0)
                              /\ usage' = usage
    /\ UNCHANGED <<store, reqs, tasks, issued, served>>
    /\ UNCHANGED <<triVars, occVars, t2Vars, t1Vars, t3Vars>>

-----------------------------------------------------------------------------
(* The values of the variables a specification does not use *)

Vals == 0..MaxVal
XGrid == (-1)..(MaxVal + 1)
NotYet == Raised("unevaluated")
NoTriStats == [done |-> FALSE, mean |-> Zero, median |-> Surd(0, 0, 0)]
NoOccStats == [done |-> FALSE, mean |-> Zero, variance |-> Zero]
NoT2Out == [done |-> FALSE, out |-> T2Raised("none")]
NoCmp == [legacy |-> T2Raised("none"), core_fp |-> T2Raised("none"),
          legacy_fp |-> T2Raised("none")]
NoRef == [set |-> FALSE, args |-> NoArgs, out |-> [err |-> "none", result |-> NoResult]]

TriUnused ==
    /\ triArgs = [a |-> 0, b |-> 1, c |-> 0]
    /\ cdfSeen = [x \in XGrid |-> NotYet]
    /\ triStats = NoTriStats

OccUnused ==
    /\ occArgs = [number_set |-> <<0>>, prob_set |-> <<One>>]
    /\ occStats = NoOccStats

T2Unused ==
    /\ t2Args = [num |-> 0, table |-> <<<<0, 0, 0, 0>>, <<0, 0, 0, 0>>, <<0, 0, 0, 0>>>>,
                 probs |-> [i \in 1..6 |-> Zero]]
    /\ t2Out = NoT2Out
    /\ t2Cmp = NoCmp

T1Unused ==
    /\ rng = RngSeed(0)
    /\ np_seed = NoSeed
    /\ th = [t \in {1} |-> Idle]
    /\ ref = NoRef

T3Unused == t3 = T3Idle

Orgs == {"org1", "org2"}
NoUsage == [o \in Orgs |-> [ty \in UsageTypes |-> 0]]

ApiUnused ==
    /\ store = <<>>
    /\ usage = NoUsage
    /\ reqs = [c \in Clients |-> IdleRequest(NoUser)]
    /\ tasks = <<>>
    /\ resp = NoResponse
    /\ issued = 0
    /\ served = 0

-----------------------------------------------------------------------------
(* SpecTri: the triangular functions applied to every parameter triple *)

InitTri ==
    /\ triArgs \in [a : Vals, b : Vals, c : Vals]
    /\ cdfSeen = [x \in XGrid |-> NotYet]
    /\ triStats = NoTriStats
    /\ OccUnused /\ T2Unused /\ T1Unused /\ T3Unused /\ ApiUnused

EvalCdf(x) ==
    /\ cdfSeen[x] = NotYet
    /\ cdfSeen' = [cdfSeen EXCEPT
                     ![x] = triangular_cdf(x, triArgs.a, triArgs.b, triArgs.c)]
    /\ UNCHANGED <<triArgs, triStats, occVars, t2Vars, t1Vars, t3Vars, apiVars>>

EvalStats ==
    /\ ~triStats.done
    /\ triStats' = [done |-> TRUE,
                    mean |-> MEAN_t(triArgs.a, triArgs.b, triArgs.c),
                    median |-> MEDIAN_t(triArgs.a, triArgs.b, triArgs.c)]
    /\ UNCHANGED <<triArgs, cdfSeen, occVars, t2Vars, t1Vars, t3Vars, apiVars>>

NextTri == (\E x \in XGrid : EvalCdf(x)) \/ EvalStats

SpecTri == InitTri /\ [][NextTri]_vars

-----------------------------------------------------------------------------
(* SpecOcc: the occurrence statistics applied to every small table *)

\* Probabilities in thousandths, around the validator's tolerance.
ProbMilli == {0, 250, 499, 500, 501, 750, 1000}
ProbVals == {Flt(k, 1000) : k \in ProbMilli}

InitOcc ==
    /\ \E k \in 1..MaxOcc :
          occArgs \in [number_set : [1..k -> 0..MaxCount],
                       prob_set : [1..k -> ProbVals]]
    /\ occStats = NoOccStats
    /\ TriUnused /\ T2Unused /\ T1Unused /\ T3Unused /\ ApiUnused

EvalOcc ==
    /\ ~occStats.done
    /\ occStats' = [done |-> TRUE,
                    mean |-> MEAN_d(occArgs.number_set, occArgs.prob_set),
                    variance |-> VARIANCE_d(occArgs.number_set, occArgs.prob_set)]
    /\ UNCHANGED <<occArgs, triVars, t2Vars, t1Vars, t3Vars, apiVars>>

NextOcc == EvalOcc

SpecOcc == InitOcc /\ [][NextOcc]_vars

-----------------------------------------------------------------------------
(* SpecT2: Task2 applied to every small table *)

ZeroTable == <<<<0, 0, 0, 0>>, <<0, 0, 0, 0>>, <<0, 0, 0, 0>>>>

\* The 3x4 tables of non-negative counts with k cases in all.
RECURSIVE TablesOf(_)
TablesOf(k) ==
    IF k = 0 THEN {ZeroTable}
    ELSE {[tb EXCEPT ![r][c] = @ + 1] :
             tb \in TablesOf(k - 1), r \in 1..3, c \in 1..4}

Tables == UNION {TablesOf(k) : k \in 0..MaxTotal}

TableTotal(tb) ==
    LET Row(r) == tb[r][1] + tb[r][2] + tb[r][3] + tb[r][4]
    IN  Row(1) + Row(2) + Row(3)

TestProbs == {Zero, Half, One}

InitT2 ==
    /\ \E tb \in Tables, ps \in [1..6 -> TestProbs] :
          t2Args = [num |-> TableTotal(tb), table |-> tb, probs |-> ps]
    /\ t2Out = NoT2Out
    /\ t2Cmp = NoCmp
    /\ TriUnused /\ OccUnused /\ T1Unused /\ T3Unused /\ ApiUnused

RunTask2 ==
    /\ ~t2Out.done
    /\ t2Out' = [done |-> TRUE,
                 out |-> Task2(t2Args.num, t2Args.table, t2Args.probs)]
    /\ UNCHANGED <<t2Args, t2Cmp, triVars, occVars, t1Vars, t3Vars, apiVars>>

NextT2 == RunTask2

SpecT2 == InitT2 /\ [][NextT2]_vars

-----------------------------------------------------------------------------
(* SpecLegacy: the two Task2 applied to the same arguments *)

HalfProbs == {Zero, Half}

\* Probability lists in which the two middle columns share a test
\* probability, and so do the rows Y = 6 and Y = 7.
LegacyProbs ==
    {<<p2, p34, p34, p5, py, py>> :
        p2 \in HalfProbs, p34 \in HalfProbs, p5 \in HalfProbs, py \in HalfProbs}

InitLegacy ==
    /\ \E tb \in TablesOf(MaxTotal + 1) \cup {ZeroTable},
          ps \in LegacyProbs, n \in {0, 1} :
          t2Args = [num |-> n * TableTotal(tb), table |-> tb, probs |-> ps]
    /\ t2Out = NoT2Out
    /\ t2Cmp = NoCmp
    /\ TriUnused /\ OccUnused /\ T1Unused /\ T3Unused /\ ApiUnused

RunBoth ==
    /\ ~t2Out.done
    /\ t2Out' = [done |-> TRUE,
                 out |-> Task2(t2Args.num, t2Args.table, t2Args.probs)]
    /\ t2Cmp' = [legacy |-> legacy_Task2(t2Args.num, t2Args.table, t2Args.probs),
                 core_fp |-> Task2_fp(t2Args.num, t2Args.table, t2Args.probs),
                 legacy_fp |-> legacy_Task2_fp(t2Args.num, t2Args.table,
                                               t2Args.probs)]
    /\ UNCHANGED <<t2Args, triVars, occVars, t1Vars, t3Vars, apiVars>>

NextLegacy == RunBoth

SpecLegacy == InitLegacy /\ [][NextLegacy]_vars

-----------------------------------------------------------------------------
(* SpecTask1, SpecSeq, SpecConc: calls of Task1 *)

\* The interpreter starts with a generator seeded from the system's entropy.
InitT1(threads) ==
    /\ rng \in [st : RngStates, gauss_next : {NoGauss}]
    /\ np_seed = NoSeed
    /\ th = [t \in threads |-> Idle]
    /\ ref = NoRef
    /\ TriUnused /\ OccUnused /\ T2Unused /\ T3Unused /\ ApiUnused

\* Thresholds below, at and above the impacts the quantised stream yields.
Points == {3, 6}

\* SpecTask1: every triangular triple, valid or not, and 0..MaxIter iterations.
WideArgs ==
    [a : 0..MaxTri, b : 0..MaxTri, c : 0..MaxTri, point1 : 0..MaxTri,
     number_set : {<<1, 3>>}, prob_set : {<<Half, Half>>},
     num : 0..MaxIter, point2 : Points, mu : {1}, sigma : {1},
     xm : {1}, alpha : {1}, point3 : Points, point4 : Points,
     random_seed : {NoSeed, 1}]

\* SpecSeq and SpecConc: one valid scenario, the sampling parameters varied.
NarrowArgs(seeds) ==
    [a : {0}, b : {2}, c : {1}, point1 : {1},
     number_set : {<<0, 1>>}, prob_set : {<<Half, Half>>},
     num : 1..MaxIter, point2 : {3}, mu : {1}, sigma : {1},
     xm : {1}, alpha : {1, 2}, point3 : {3}, point4 : {6},
     random_seed : seeds]

NextTask1 ==
    \/ \E t \in Threads : Call(t, WideArgs)
    \/ \E t \in Threads : SeedStep(t)
    \/ \E t \in Threads : StatsStep(t)
    \/ \E t \in Threads : GaussStep(t)
    \/ \E t \in Threads : ParetoStep(t)
    \/ \E t \in Threads : PostStep(t)
    \/ \E t \in Threads : Return(t)

SpecTask1 == InitT1({1}) /\ [][NextTask1]_vars

\* The caller keeps the outcome of a seeded call to compare later calls with.
Remember(t) ==
    /\ Finished(t)
    /\ th[t].args.random_seed # NoSeed
    /\ ref' = [set |-> TRUE, args |-> th[t].args, out |-> Outcome(t)]
    /\ th' = [th EXCEPT ![t] = Idle]
    /\ UNCHANGED <<rng, np_seed, pureVars>>

\* Other code draws from the module-level generator between two calls.
OtherDraw ==
    /\ \A t \in Threads : th[t].pc = "idle"
    /\ rng' = RngRandom(rng)[2]
    /\ UNCHANGED <<np_seed, th, ref, pureVars>>

NextSeq ==
    \/ \E t \in Threads : Call(t, NarrowArgs({NoSeed, 1, 2}))
    \/ \E t \in Threads : SeedStep(t)
    \/ \E t \in Threads : StatsStep(t)
    \/ \E t \in Threads : GaussStep(t)
    \/ \E t \in Threads : ParetoStep(t)
    \/ \E t \in Threads : PostStep(t)
    \/ \E t \in Threads : Return(t)
    \/ \E t \in Threads : Remember(t)
    \/ OtherDraw

SpecSeq == InitT1({1}) /\ [][NextSeq]_vars

NextConc ==
    \/ \E t \in Threads : Call(t, NarrowArgs({1, 2}))
    \/ \E t \in Threads : SeedStep(t)
    \/ \E t \in Threads : StatsStep(t)
    \/ \E t \in Threads : GaussStep(t)
    \/ \E t \in Threads : ParetoStep(t)
    \/ \E t \in Threads : PostStep(t)
    \/ \E t \in Threads : Return(t)

SpecConc == InitT1({1, 2}) /\ [][NextConc]_vars

\* SpecMalformed: one valid scenario and around it each kind of malformed
\* input: min = max, probabilities summing to 1.5, no iterations, and
\* sigma, xm and alpha negative, zero and positive.
MalformedArgs ==
    [a : {0, 2}, b : {2}, c : {1}, point1 : {1},
     number_set : {<<0, 1>>}, prob_set : {<<Half, Half>>, <<Half, One>>},
     num : 0..MaxIter, point2 : {3}, mu : {1}, sigma : {-1, 0, 1},
     xm : {-1, 0, 1}, alpha : {-1, 0, 1}, point3 : {3}, point4 : {6},
     random_seed : {NoSeed, 1}]

NextMalformed ==
    \/ \E t \in Threads : Call(t, MalformedArgs)
    \/ \E t \in Threads : SeedStep(t)
    \/ \E t \in Threads : StatsStep(t)
    \/ \E t \in Threads : GaussStep(t)
    \/ \E t \in Threads : ParetoStep(t)
    \/ \E t \in Threads : PostStep(t)
    \/ \E t \in Threads : Return(t)

SpecMalformed == InitT1({1}) /\ [][NextMalformed]_vars

-----------------------------------------------------------------------------
(* SpecDemo: the scenarios of demo.py *)

\* demo_ale_calculation: Triangular(min = 50000, mode = 150000,
\* max = 500000) in units of 50000, and point1 = 100000 in the same unit.
DemoTri == [a |-> 1, b |-> 10, c |-> 3]

DemoPoint1 == 2

\* The thresholds the distribution is evaluated at: 0 to 250000, on both
\* sides of the mode.
DemoGrid == 0..(DemoTri.c + 2)

\* occurrence_counts and occurrence_probs
DemoOcc ==
    [number_set |-> <<0, 1, 2, 3, 4, 5>>,
     prob_set |-> <<Flt(3, 10), Flt(4, 10), Flt(2, 10),
                    Flt(6, 100), Flt(3, 100), Flt(1, 100)>>]

\* demo_probability_analysis: joint_table and test_probs, with the declared
\* number of cases.
DemoTable == <<<<25, 35, 20, 15>>, <<30, 40, 25, 10>>, <<15, 25, 30, 20>>>>

DemoProbs ==
    <<Flt(80, 100), Flt(75, 100), Flt(70, 100), Flt(65, 100), Flt(60, 100),
      Flt(55, 100)>>

InitDemo ==
    /\ triArgs = DemoTri
    /\ cdfSeen = [x \in DemoGrid |-> NotYet]
    /\ triStats = NoTriStats
    /\ occArgs = DemoOcc
    /\ occStats = NoOccStats
    /\ t2Args \in [num : {250, TableTotal(DemoTable)},
                   table : {DemoTable}, probs : {DemoProbs}]
    /\ t2Out = NoT2Out
    /\ t2Cmp = NoCmp
    /\ T1Unused /\ T3Unused /\ ApiUnused

NextDemo ==
    \/ \E x \in DemoGrid : EvalCdf(x)
    \/ EvalStats
    \/ EvalOcc
    \/ RunTask2

SpecDemo == InitDemo /\ [][NextDemo]_vars

-----------------------------------------------------------------------------
(* SpecTask3: calls of Task3 *)

\* Nine observations of the four control counts, of full column rank with
\* the intercept.
History ==
    <<<<0, 1, 0, 0, 0, 1, 1, 2, 0>>,
      <<0, 0, 1, 0, 0, 1, 0, 0, 2>>,
      <<0, 0, 0, 1, 0, 0, 1, 0, 0>>,
      <<0, 0, 0, 0, 1, 0, 0, 0, 0>>>>

\* The outcomes of the observations when they lie on the plane of w.
Outcomes(w) == [k \in 1..Len(History[1]) |-> Predict(w, History, k)]

\* Unit costs: all positive, or the last one negative.
Costs == {<<2, 1, 3, 1>>, <<1, 2, 3, -1>>}

\* Deployments below, within and above the upper bound of the first
\* control; targets and limits on both sides of the current levels.
Task3Args ==
    {[x |-> History, y |-> Outcomes(wb), z |-> Outcomes(wd),
      x_initial |-> <<i1, 0, 1, 1>>, c |-> c, x_bound |-> <<2, 2, 2, 2>>,
      se_bound |-> se, ml_bound |-> ml] :
        wb \in SafeguardFits, wd \in MaintenanceFits, i1 \in {0, 1, 3},
        c \in Costs, se \in {2, 4, 7}, ml \in {1, 3, 6}}

WithinBounds(g) == \A i \in Controls : g.x_initial[i] <= g.x_bound[i]

LegacyArgs == {g \in Task3Args : WithinBounds(g)}

InitTask3 ==
    /\ t3 = T3Idle
    /\ TriUnused /\ OccUnused /\ T2Unused /\ T1Unused /\ ApiUnused

NextTask3 ==
    \/ Task3Call(FALSE, Task3Args)
    \/ Task3Call(TRUE, LegacyArgs)
    \/ Regress
    \/ Solve
    \/ LegacySolve
    \/ Task3Return

SpecTask3 == InitTask3 /\ [][NextTask3]_vars

-----------------------------------------------------------------------------
(* SpecRegress: calls of Task3 whose history may be rank-deficient *)

\* A history in which the last control was never deployed: the design
\* matrix has a zero column and rank 4.
SparseHistory == [History EXCEPT ![4] = [k \in 1..Len(History[4]) |-> 0]]

\* X_design v = 0 for some non-zero v: the columns are linearly dependent.
RankDeficient(x) ==
    \E v \in [1..5 -> (-1)..1] :
        /\ \E i \in 1..5 : v[i] # 0
        /\ \A k \in 1..Len(x[1]) : Predict(v, x, k) = 0

RegressArgs ==
    {[x |-> h, y |-> [k \in 1..Len(h[1]) |-> Predict(wb, h, k)],
      z |-> [k \in 1..Len(h[1]) |-> Predict(wd, h, k)],
      x_initial |-> <<i1, 0, 1, 1>>, c |-> <<2, 1, 3, 1>>,
      x_bound |-> <<2, 2, 2, 2>>, se_bound |-> se, ml_bound |-> 6] :
        h \in {History, SparseHistory}, wb \in SafeguardFits,
        wd \in MaintenanceFits, i1 \in {0, 1}, se \in {2, 4, 7}}

NextRegress ==
    \/ Task3Call(FALSE, RegressArgs)
    \/ Regress
    \/ Solve
    \/ Task3Return

SpecRegress == InitTask3 /\ [][NextRegress]_vars

-----------------------------------------------------------------------------
(* SpecQuota: POST /api/v1/simulate by two sessions of one organization,   *)
(* from the start of a month or late in it.                                *)
(* SpecStore: two users of different organizations simulate, read, delete  *)
(* and download, while the background tasks run.                           *)

Tiers == {"starter", "pro", "enterprise"}

\* The state after k simulations of user u were accepted one after the
\* other with the database up, and their tasks ran.
AfterAccepted(k, u) ==
    /\ store = [r \in 1..k |-> [status |-> "pending", user_id |-> u.sub]]
    /\ tasks = [r \in 1..k |-> [pc |-> "ran", org_id |-> u.org_id]]
    /\ usage = [NoUsage EXCEPT ![u.org_id]["simulations"] = k]
    /\ issued = k

InitQuota ==
    /\ \E tier \in Tiers :
          LET u == [sub |-> "u1", org_id |-> "org1", tier |-> tier]
              limit == get_usage_limits(tier).simulations_per_month
          IN  /\ reqs = [c \in Clients |-> IdleRequest(u)]
              /\ \E k \in {0} \cup (IF limit = -1 THEN {} ELSE {limit - 1}) :
                    AfterAccepted(k, u)
    /\ resp = NoResponse
    /\ served = 0
    /\ TriUnused /\ OccUnused /\ T2Unused /\ T1Unused /\ T3Unused

NextQuota ==
    \/ \E c \in Clients : CheckLimit(c)
    \/ \E c \in Clients : RecordUsage(c)
    \/ \E c \in Clients : StoreAndQueue(c)

SpecQuota == InitQuota /\ [][NextQuota]_vars

\* The run ids a client may ask for: the issued ones and one never issued.
AskedRuns == 1..(MaxRequests + 1)

InitStore ==
    /\ reqs = [c \in Clients |->
                 IdleRequest(IF c = 1
                             THEN [sub |-> "u1", org_id |-> "org1", tier |-> "starter"]
                             ELSE [sub |-> "u2", org_id |-> "org2",
                                   tier |-> "enterprise"])]
    /\ AfterAccepted(0, [sub |-> "u1", org_id |-> "org1", tier |-> "starter"])
    /\ resp = NoResponse
    /\ served = 0
    /\ TriUnused /\ OccUnused /\ T2Unused /\ T1Unused /\ T3Unused

NextStore ==
    \/ \E c \in Clients : CheckLimit(c)
    \/ \E c \in Clients : RecordUsage(c)
    \/ \E c \in Clients : StoreAndQueue(c)
    \/ \E r \in AskedRuns : RunTask(r)
    \/ \E c \in Clients, r \in AskedRuns : GetResults(c, r)
    \/ \E c \in Clients, r \in AskedRuns : DeleteSimulation(c, r)
    \/ \E c \in Clients, r \in AskedRuns : DownloadPdf(c, r)

SpecStore == InitStore /\ [][NextStore]_vars

-----------------------------------------------------------------------------
(* Claims about the triangular distribution (SpecTri) *)

Evaluated(x) == cdfSeen[x] # NotYet

\* C1: for valid (min, mode, max) the CDF is non-decreasing in x and every
\* value it returns lies in [0, 1].
C1_CdfMonotone ==
    ValidTri(triArgs) =>
        \A x1 \in XGrid, x2 \in XGrid :
            (x1 <= x2 /\ Evaluated(x1) /\ Evaluated(x2)) =>
                /\ InUnit(cdfSeen[x1])
                /\ InUnit(cdfSeen[x2])
                /\ Leq(cdfSeen[x1], cdfSeen[x2])

\* Every point of the grid evaluated for a triangle with interior points on
\* both sides of the mode: all four branches and the three boundaries.
C1_Witness ==
    /\ ValidTri(triArgs)
    /\ triArgs.c - triArgs.a >= 2
    /\ triArgs.b - triArgs.c >= 2
    /\ \A x \in XGrid : Evaluated(x)

\* C2: for valid (min, mode, max), cdf(min) = 0, cdf(max) = 1 and
\* cdf(mode) = (mode - min)/(max - min), also when mode = min or mode = max.
C2_CdfLandmarks ==
    ValidTri(triArgs) =>
        /\ Evaluated(triArgs.a) => cdfSeen[triArgs.a] = Zero
        /\ Evaluated(triArgs.b) => cdfSeen[triArgs.b] = One
        /\ Evaluated(triArgs.c) =>
               cdfSeen[triArgs.c] =
                   Div(triArgs.c - triArgs.a, triArgs.b - triArgs.a)

\* The one-sided case mode = min with the landmarks evaluated.
C2_Witness ==
    /\ ValidTri(triArgs)
    /\ triArgs.c = triArgs.a
    /\ Evaluated(triArgs.a)
    /\ Evaluated(triArgs.b)

\* C3: for valid (min, mode, max), the mean and the median lie in
\* [min, max], whichever branch computes the median.
C3_MeanMedianInRange ==
    (ValidTri(triArgs) /\ triStats.done) =>
        /\ IsNum(triStats.mean)
        /\ Leq(Flt(triArgs.a, 1), triStats.mean)
        /\ Leq(triStats.mean, Flt(triArgs.b, 1))
        /\ triStats.median.err = "none"
        /\ SurdGeqInt(triStats.median, triArgs.a)
        /\ SurdLeqInt(triStats.median, triArgs.b)

\* The right-hand branch of the median (F_c < 0.5) with a non-zero root.
C3_Witness ==
    /\ ValidTri(triArgs)
    /\ triStats.done
    /\ triStats.median.sgn = -1
    /\ triStats.median.rad > 0

-----------------------------------------------------------------------------
(* Claims about the occurrence statistics (SpecOcc) and Task2 (SpecT2) *)

\* C4: for every valid occurrence table the variance
\* sum(counts[i]^2 * probs[i]) - mean^2 that Task1 computes is >= 0.
C4_VarianceNonNegative ==
    (ValidOcc(occArgs) /\ occStats.done) => Leq(Zero, occStats.variance)

\* A 3x4 table of non-negative counts with a positive total and six test
\* probabilities in [0, 1].
ValidJoint(g) ==
    /\ \A r \in 1..3, c \in 1..4 : g.table[r][c] >= 0
    /\ TableTotal(g.table) > 0
    /\ \A i \in 1..6 : InUnit(g.probs[i])

\* C6: for every valid joint table and test probabilities, the prob1, prob2
\* and prob3 that Task2 returns each lie in [0, 1].
C6_Task2ProbsInUnit ==
    (ValidJoint(t2Args) /\ t2Out.done /\ t2Out.out.err = "none") =>
        /\ InUnit(t2Out.out.prob1)
        /\ InUnit(t2Out.out.prob2)
        /\ InUnit(t2Out.out.prob3)

-----------------------------------------------------------------------------
(* Claims about Task1 (SpecTask1, SpecSeq, SpecConc) *)

Returned(t) == th[t].pc = "returned"

\* C5: for every valid request with at least one iteration, whatever
\* samples are drawn and whatever the thresholds, the prob1, prob2 and prob3
\* that Task1 returns lie in [0, 1].
C5_Task1ProbsInUnit ==
    \A t \in Threads :
        (Returned(t) /\ ValidRequest(th[t].args)) =>
            /\ InUnit(th[t].result[1])
            /\ InUnit(th[t].result[6])
            /\ InUnit(th[t].result[7])

\* A valid request returned with point3 > point4 and a positive prob2.
C5_Witness ==
    \E t \in Threads :
        /\ Returned(t)
        /\ ValidRequest(th[t].args)
        /\ th[t].args.point3 > th[t].args.point4
        /\ th[t].args.num = MaxIter
        /\ Lt(Zero, th[t].result[6])

\* The indices of the samples above point2, and of those in [point3, point4].
Above(samples, point2) ==
    {i \in 1..Len(samples) : ~Leq(samples[i], Flt(point2, 1))}

Within(samples, point3, point4) ==
    {i \in 1..Len(samples) :
        Leq(Flt(point3, 1), samples[i]) /\ Leq(samples[i], Flt(point4, 1))}

\* C7: Task1 returns eight values in the order (prob1, mean_t, median_t,
\* mean_d, var_d, prob2, prob3, ale), with prob1 = cdf(point1), prob2 the
\* share of samples > point2, prob3 the share of samples in [point3, point4]
\* and ale = mean_d * (median_t * prob2) of the values returned.
C7_ResultTuple ==
    \A t \in Threads :
        Returned(t) =>
            LET g == th[t].args
                r == th[t].result
                samples == th[t].loc.total_impacts
            IN  /\ Len(r) = 8
                /\ Len(samples) = g.num
                /\ r[1] = triangular_cdf(g.point1, g.a, g.b, g.c)
                /\ r[2] = MEAN_t(g.a, g.b, g.c)
                /\ r[3] = MEDIAN_t(g.a, g.b, g.c)
                /\ r[4] = MEAN_d(g.number_set, g.prob_set)
                /\ r[5] = VARIANCE_d(g.number_set, g.prob_set)
                /\ r[6] = Div(Cardinality(Above(samples, g.point2)), g.num)
                /\ r[7] = Div(Cardinality(Within(samples, g.point3, g.point4)),
                              g.num)
                /\ r[8] = Scaled(Mul(r[4], r[6]), r[3])

\* A returned call whose prob2 and prob3 differ and are both positive.
C7_Witness ==
    \E t \in Threads :
        /\ Returned(t)
        /\ th[t].args.num = MaxIter
        /\ Lt(Zero, th[t].result[6])
        /\ Lt(Zero, th[t].result[7])
        /\ th[t].result[6] # th[t].result[7]

\* C8: a seeded call that follows a seeded call with the same arguments,
\* whatever ran in between, hands its caller the same outcome.
C8_SeededRunsAgree ==
    \A t \in Threads :
        (Finished(t) /\ th[t].args.random_seed # NoSeed
            /\ ref.set /\ ref.args = th[t].args) =>
            Outcome(t) = ref.out

\* A seeded call returned with the arguments of the remembered one, on a
\* generator that the call had to re-seed.
C8_Witness ==
    \E t \in Threads :
        /\ Returned(t)
        /\ th[t].args.random_seed # NoSeed
        /\ th[t].args.num = MaxIter
        /\ ref.set
        /\ ref.args = th[t].args

\* The samples of k iterations drawn from generator gen with nothing else
\* drawing from it.
RECURSIVE SamplesAlone(_, _, _)
SamplesAlone(g, gen, k) ==
    IF k = 0 THEN <<>>
    ELSE LET dz == RngGauss(gen)
             du == RngRandom(dz[2])
         IN  <<Add(LognormalA(g.mu, g.sigma, dz[1]),
                   ParetoB(g.xm, g.alpha, du[1]))>>
             \o SamplesAlone(g, du[2], k - 1)

\* What a seeded call with valid arguments g returns when it runs alone.
ResultAlone(g) ==
    LET samples == SamplesAlone(g, RngSeed(g.random_seed), g.num)
        l == [NoLocals EXCEPT
                !.prob1 = triangular_cdf(g.point1, g.a, g.b, g.c),
                !.MEAN_t = MEAN_t(g.a, g.b, g.c),
                !.MEDIAN_t = MEDIAN_t(g.a, g.b, g.c),
                !.MEAN_d = MEAN_d(g.number_set, g.prob_set),
                !.VARIANCE_d = VARIANCE_d(g.number_set, g.prob_set)]
    IN  ResultTuple(l,
            Div(Cardinality(Above(samples, g.point2)), g.num),
            Div(Cardinality(Within(samples, g.point3, g.point4)), g.num))

\* C9: under every interleaving of concurrent calls, a seeded call returns
\* what the same call returns when run alone.
C9_ConcurrentRunsIndependent ==
    \A t \in Threads :
        (Returned(t) /\ th[t].args.random_seed # NoSeed) =>
            th[t].result = ResultAlone(th[t].args)

\* C10: a call with min >= max raises and returns no tuple.
C10_InvalidBoundsRaise ==
    \A t \in Threads :
        (Finished(t) /\ th[t].args.a >= th[t].args.b) =>
            (th[t].pc = "raised" /\ th[t].result = NoResult)

-----------------------------------------------------------------------------
(* Claims about the failures of Task1 (SpecTask1) *)

\* C11: a call with iterations = 0 signals an error to its caller, the
\* division by zero in prob2 that the specification files under
\* ParameterError, and returns no result tuple.
C11_ZeroIterationsRaise ==
    \A t \in Threads :
        (Finished(t) /\ th[t].args.num = 0) =>
            /\ th[t].pc = "raised"
            /\ th[t].err = "ZeroDivisionError"
            /\ th[t].result = NoResult

\* A call with a valid triangle and iterations = 0 that got as far as the
\* division by num and raised there.
C11_Witness ==
    \E t \in Threads :
        /\ th[t].pc = "raised"
        /\ th[t].args.num = 0
        /\ ValidTri(th[t].args)
        /\ th[t].loc.total_impacts = <<>>
        /\ th[t].loc.MEAN_d # Zero

\* The call has drawn from the generator: gauss() has produced the A of an
\* iteration, and exp() of anything is positive.
Drew(t) == th[t].loc.A # Zero

\* C12: on every malformed input (sigma <= 0, xm <= 0, alpha <= 0,
\* probabilities not summing to about 1, min >= max, iterations = 0) Task1
\* draws no random sample and returns no result.
C12_MalformedDetectedBeforeSampling ==
    \A t \in Threads :
        (th[t].pc # "idle" /\ ~ValidRequest(th[t].args)) =>
            /\ ~Drew(t)
            /\ ~Returned(t)

-----------------------------------------------------------------------------
(* Claims about the failures of Task2 (SpecT2) *)

\* The marginals of a joint table: rows Y6, Y7, Y8 and columns X2..X5.
RowMarginal(tb, r) == tb[r][1] + tb[r][2] + tb[r][3] + tb[r][4]

ColMarginal(tb, c) == tb[1][c] + tb[2][c] + tb[3][c]

SomeMarginalZero(tb) ==
    \/ \E r \in 1..3 : RowMarginal(tb, r) = 0
    \/ \E c \in 1..4 : ColMarginal(tb, c) = 0

\* C13: a call of Task2 with a table whose total, or any of whose row or
\* column marginals, is 0 surfaces an error instead of returning a triple.
C13_AnyZeroMarginalRaises ==
    (t2Out.done
        /\ (TableTotal(t2Args.table) = 0 \/ SomeMarginalZero(t2Args.table))) =>
        t2Out.out.err # "none"

\* C13, for the divisors Task2 has: a call with a table whose total or whose
\* row marginal Y8 is 0 ends in a ZeroDivisionError and returns no triple.
C13_ZeroTotalOrY8Raises ==
    (t2Out.done
        /\ (TableTotal(t2Args.table) = 0 \/ RowMarginal(t2Args.table, 3) = 0)) =>
        t2Out.out = T2Raised("ZeroDivisionError")

\* A table with cases, none of them with Y = 8, and test probabilities that
\* make P(T) positive: the call raised at the division by Y8 / total.
C13_Witness ==
    /\ t2Out.done
    /\ TableTotal(t2Args.table) = MaxTotal
    /\ RowMarginal(t2Args.table, 3) = 0
    /\ \A i \in 1..4 : t2Args.probs[i] = One
    /\ t2Out.out.err = "ZeroDivisionError"

-----------------------------------------------------------------------------
(* Claims about the scenarios of demo.py (SpecDemo) *)

\* A non-negative number rounded to four and to two decimal places, in
\* units of 1/10000 and of 1/100.
Round4(v) == (20000 * v.n + v.d) \div (2 * v.d)

Round2(v) == (200 * v.n + v.d) \div (2 * v.d)

\* C14: for Triangular(50000, 150000, 500000) and point1 = 100000, prob1 is
\* 0.2381 to four decimal places.
C14_DemoProb1 ==
    Evaluated(DemoPoint1) => Round4(cdfSeen[DemoPoint1]) = 2381

\* C14, with the value of the formula (x - a)^2 / ((b - a)(c - a)) = 1/18:
\* prob1 is 0.0556 to four decimal places.
C14_DemoProb1Computed ==
    Evaluated(DemoPoint1) =>
        /\ cdfSeen[DemoPoint1] = Flt(1, 18)
        /\ Round4(cdfSeen[DemoPoint1]) = 556

\* The CDF of the demo's triangle evaluated at point1, on the left branch.
C14_Witness ==
    /\ triArgs = DemoTri
    /\ triArgs.a < DemoPoint1 /\ DemoPoint1 < triArgs.c
    /\ Evaluated(DemoPoint1)

\* C15: for counts [0..5] with probabilities [0.3, 0.4, 0.2, 0.06, 0.03,
\* 0.01], mean_d is 1.21 and variance_d is 1.2259.
C15_DemoOccurrence ==
    occStats.done =>
        /\ Round2(occStats.mean) = 121
        /\ Round4(occStats.variance) = 12259

\* C15, with the values of sum(n * p) and sum(n^2 * p) - mean^2: mean_d is
\* 1.15 and variance_d is 1.1475.
C15_DemoOccurrenceComputed ==
    occStats.done =>
        /\ occStats.mean = Flt(115, 100)
        /\ occStats.variance = Flt(11475, 10000)

\* The statistics of the demo's occurrence table computed.
C15_Witness ==
    /\ occArgs = DemoOcc
    /\ ValidOcc(occArgs)
    /\ occStats.done

\* C16: for the demo's joint table passed with declared total 250, prob1 is
\* (95 + 100) / 250 = 0.78.
C16_DemoJointProb1 ==
    (t2Out.done /\ t2Args.num = 250) =>
        /\ t2Out.out.err = "none"
        /\ t2Out.out.prob1 = Div(95 + 100, 250)

\* C16, with the marginals and the total of the cells: X3 = 100, X4 = 75,
\* total 290, so prob1 is 175/290 = 0.6034 whatever total is declared.
C16_DemoJointProb1Computed ==
    t2Out.done =>
        /\ t2Out.out.err = "none"
        /\ t2Out.out.prob1 = Div(100 + 75, 290)
        /\ Round4(t2Out.out.prob1) = 6034

\* Task2 has run on the demo's table with 250 declared, which is not the
\* sum of the cells.
C16_Witness ==
    /\ t2Out.done
    /\ t2Args.table = DemoTable
    /\ t2Args.num = 250
    /\ t2Args.num # TableTotal(t2Args.table)

-----------------------------------------------------------------------------
(* Claims about Task3 (SpecTask3) *)

\* The level the fitted model w gives the deployment v, and the additional
\* controls of a returned call.
Level(w, v) == w[1] + Dot4(w, v)

Additional == t3.result[3]

ZeroX == [i \in Controls |-> Zero]

Task3Returned == t3.pc = "returned" /\ ~t3.legacy

\* C17: whenever the safeguard target is at or below the current modelled
\* safeguard level and current_controls are within upper_bounds, Task3
\* returns additional_controls = [0, 0, 0, 0].
C17_NoGapNoControls ==
    (/\ Task3Finished
     /\ ~t3.legacy
     /\ WithinBounds(t3.args)
     /\ t3.args.se_bound <= Level(t3.weights_b, t3.args.x_initial)) =>
        /\ t3.pc = "returned"
        /\ Additional = ZeroX

\* C17, for a deployment that also keeps the maintenance limit and for
\* positive unit costs: whenever the safeguard target is at or below the
\* current safeguard level, the maintenance limit at or above the current
\* maintenance load, every unit cost positive and current_controls within
\* upper_bounds, Task3 returns additional_controls = [0, 0, 0, 0].
C17_NoGapNoControlsWithinLimit ==
    (/\ Task3Finished
     /\ ~t3.legacy
     /\ WithinBounds(t3.args)
     /\ t3.args.se_bound <= Level(t3.weights_b, t3.args.x_initial)
     /\ t3.args.ml_bound >= Level(t3.weights_d, t3.args.x_initial)
     /\ \A i \in Controls : t3.args.c[i] > 0) =>
        /\ t3.pc = "returned"
        /\ Additional = ZeroX

\* A returned call whose target lies strictly below the current level, with
\* room for more of every control.
C17_Witness ==
    /\ Task3Returned
    /\ t3.args.se_bound < Level(t3.weights_b, t3.args.x_initial)
    /\ t3.args.ml_bound >= Level(t3.weights_d, t3.args.x_initial)
    /\ \A i \in Controls :
          t3.args.c[i] > 0 /\ t3.args.x_initial[i] < t3.args.x_bound[i]
    /\ Additional = ZeroX

\* C18: on every successful call with current_controls within upper_bounds,
\* 0 <= additional_controls[i] <= upper_bounds[i] - current_controls[i].
C18_AdditionalWithinBounds ==
    (Task3Returned /\ WithinBounds(t3.args)) =>
        \A i \in Controls :
            /\ Leq(Zero, Additional[i])
            /\ Leq(Additional[i], Num(t3.args.x_bound[i] - t3.args.x_initial[i]))

\* A returned call with one control raised to its upper bound and another
\* strictly between its bounds.
C18_Witness ==
    /\ Task3Returned
    /\ WithinBounds(t3.args)
    /\ \E i \in Controls :
          /\ t3.args.x_initial[i] < t3.args.x_bound[i]
          /\ Additional[i] = Num(t3.args.x_bound[i] - t3.args.x_initial[i])
    /\ \E j \in Controls :
          /\ Lt(Zero, Additional[j])
          /\ Lt(Additional[j], Num(t3.args.x_bound[j] - t3.args.x_initial[j]))

\* The points of the box 0 <= x <= ub on the grid of step 1/2.
HalfGrid(ub) ==
    {[i \in Controls |-> Flt(k[i], 2)] :
        k \in [Controls -> 0..4] \cap
              {f \in [Controls -> 0..4] : \A i \in Controls : f[i] <= 2 * ub[i]}}

\* C19: the additional_controls of every successful call are feasible
\* (weights_b[1:].x >= safeguard_gap, weights_d[1:].x <= maintenance_gap,
\* 0 <= x <= max(0, upper - current)) and no feasible point of the grid
\* costs strictly less.
C19_FeasibleAndCheapest ==
    Task3Returned =>
        LET g == t3.args
            wb == t3.result[1]
            wd == t3.result[2]
            gap_s == g.se_bound - Level(wb, g.x_initial)
            gap_m == g.ml_bound - Level(wd, g.x_initial)
            ub == [i \in Controls |-> Max(0, g.x_bound[i] - g.x_initial[i])]
            Effect(w, x) == RowDotF([i \in Controls |-> w[i + 1]], x)
            Meets(x) ==
                /\ Leq(Num(gap_s), Effect(wb, x))
                /\ Leq(Effect(wd, x), Num(gap_m))
                /\ \A i \in Controls : Leq(Zero, x[i]) /\ Leq(x[i], Num(ub[i]))
        IN  /\ Meets(Additional)
            /\ \A p \in HalfGrid(ub) :
                  Meets(p) => Leq(RowDotF(g.c, Additional), RowDotF(g.c, p))

\* A returned call whose optimum is not a point of whole controls and costs
\* something.
C19_Witness ==
    /\ Task3Returned
    /\ \E i \in Controls : Additional[i].d > 1
    /\ Lt(Zero, RowDotF(t3.args.c, Additional))

\* C20: when the linear program has no solution, Task3 reports an error to
\* its caller and returns no tuple: neither the weights nor any
\* additional_controls.
C20_InfeasibleRaises ==
    (Task3Finished /\ ~t3.success) =>
        /\ t3.pc = "raised"
        /\ t3.result = NoResult

\* C21: when the design matrix of the regression is singular or
\* rank-deficient, Task3 reports an error and produces neither weights nor
\* additional controls.
C21_RankDeficientRaises ==
    (Task3Finished /\ RankDeficient(t3.args.x)) =>
        /\ t3.pc = "raised"
        /\ t3.result = NoResult

-----------------------------------------------------------------------------
(* Claims about the joint table, continued (SpecT2) *)

\* The count of the cell (X, Y) of a table: rows are Y = 6, 7, 8 and columns
\* X = 2, 3, 4, 5.
Cell(table, X, Y) == table[Y - 5][X - 1]

QualifyingCells == {p \in (2..5) \X (6..8) : p[1] + p[2] <= 10}

RECURSIVE CellSum(_, _)
CellSum(table, cells) ==
    IF cells = {} THEN 0
    ELSE LET p == CHOOSE q \in cells : TRUE
         IN  Cell(table, p[1], p[2]) + CellSum(table, cells \ {p})

\* C22: the cells Task2 sums for prob2 are exactly the cells (X, Y) with
\* X + Y <= 10: the prob2 it returns is the sum of the counts of those
\* cells divided by the table's total, for every table.
C22_Prob2IsGenericSum ==
    (t2Out.done /\ t2Out.out.err = "none") =>
        t2Out.out.prob2 = Div(CellSum(t2Args.table, QualifyingCells),
                              CellSum(t2Args.table, (2..5) \X (6..8)))

\* A returned call on a table with a case at (X=4, Y=6), which counts, and
\* one at (X=4, Y=8), which does not.
C22_Witness ==
    /\ t2Out.done /\ t2Out.out.err = "none"
    /\ Cell(t2Args.table, 4, 6) = 1
    /\ Cell(t2Args.table, 4, 8) = 1
    /\ t2Out.out.prob2 = Half

\* The X-side and Y-side test masses of a call, unnormalised.
MassX(g) ==
    LET Col(c) == g.table[1][c] + g.table[2][c] + g.table[3][c]
    IN  Add(Add(Add(Mul(g.probs[1], Num(Col(1))), Mul(g.probs[2], Num(Col(2)))),
                Mul(g.probs[3], Num(Col(3)))), Mul(g.probs[4], Num(Col(4))))

MassY67(g) ==
    Add(Mul(g.probs[5], Num(RowMarginal(g.table, 1))),
        Mul(g.probs[6], Num(RowMarginal(g.table, 2))))

\* C23: for every table with positive Y8 and PT_X, the prob3 that Task2
\* derives through PT_X and PT_given_Y8 equals
\* 1 - (PY6*Y6 + PY7*Y7) / (sum of probs[i]*X_i).
C23_Prob3ClosedForm ==
    (t2Out.done /\ RowMarginal(t2Args.table, 3) > 0
                /\ Lt(Zero, MassX(t2Args))) =>
        /\ t2Out.out.err = "none"
        /\ t2Out.out.prob3 = OneMinus(DivF(MassY67(t2Args), MassX(t2Args)))

\* A returned call on a table of two cases, one with Y = 8, in which both
\* sides carry test mass: prob3 = 1 - (1/2)/1 = 1/2.
C23_Witness ==
    /\ t2Out.done /\ t2Out.out.err = "none"
    /\ TableTotal(t2Args.table) = 2
    /\ RowMarginal(t2Args.table, 3) = 1
    /\ MassX(t2Args) = One
    /\ MassY67(t2Args) = Half
    /\ t2Out.out.prob3 = Half

-----------------------------------------------------------------------------
(* Claims about the triangular distribution, continued (SpecTri) *)

\* min < max with the mode at one end of the range.
ModeAtEnd(p) == p.a < p.b /\ (p.c = p.a \/ p.c = p.b)

\* C24 as stated: with min < max and mode = min or mode = max, evaluating
\* the CDF divides by zero.
C24_ModeAtEndDivides ==
    (ModeAtEnd(triArgs) /\ \A x \in XGrid : Evaluated(x)) =>
        \E x \in XGrid : cdfSeen[x].err = "ZeroDivisionError"

\* C24: with min < max and mode = min or mode = max, no evaluation of the
\* CDF divides by zero: every x gets a number in [0, 1].
C24_ModeAtEndEvaluates ==
    ModeAtEnd(triArgs) =>
        \A x \in XGrid : Evaluated(x) => IsNum(cdfSeen[x]) /\ InUnit(cdfSeen[x])

\* The whole grid evaluated for a triangle whose mode is its lower bound,
\* with points strictly inside the range.
C24_Witness ==
    /\ ModeAtEnd(triArgs)
    /\ triArgs.c = triArgs.a
    /\ triArgs.b - triArgs.a >= 2
    /\ \A x \in XGrid : Evaluated(x)

\* v = 0.5 for a number v = rat + coef * sqrt(0.5 * rad).
EqualsHalf(v) ==
    /\ v.err = "none"
    /\ LET r == Sub(Half, v.rat)
       IN  IF v.coef = Zero \/ v.rad = 0 THEN r = Zero
           ELSE /\ Lt(Zero, v.coef) <=> Lt(Zero, r)
                /\ Mul(Mul(v.coef, v.coef), Flt(v.rad, 2)) = Mul(r, r)

\* C29: for valid (min, mode, max) the median m that Task1 computes
\* satisfies cdf(m) = 0.5 for the CDF behind prob1, whichever of the three
\* branches computes m.
C29_MedianHalvesCdf ==
    (ValidTri(triArgs) /\ triStats.done) =>
        /\ triStats.median.err = "none"
        /\ EqualsHalf(triangular_cdf_at(triStats.median,
                                        triArgs.a, triArgs.b, triArgs.c))

\* The left-hand branch of the median (F_c > 0.5): an irrational median
\* strictly between min and mode.
C29_Witness ==
    /\ ValidTri(triArgs)
    /\ triStats.done
    /\ triStats.median.sgn = 1
    /\ triStats.median.rad = 6
    /\ ~SurdLeqInt(triStats.median, triArgs.a)
    /\ ~SurdGeqInt(triStats.median, triArgs.c)

-----------------------------------------------------------------------------
(* Claims about the legacy Task2 (SpecLegacy) *)

\* C30 as stated: the legacy Task2 and the core Task2 return the same
\* (prob1, prob2, prob3) and fail on the same inputs.
C30_SameFloats ==
    t2Out.done => t2Cmp.core_fp = t2Cmp.legacy_fp

\* C30: the two Task2 return the same prob1 and prob2 as floats and fail on
\* the same inputs; their prob3 are the same real number, the floats being
\* rounded along different operations; neither result depends on num.
C30_SameUpToRounding ==
    t2Out.done =>
        /\ t2Cmp.legacy = t2Out.out
        /\ t2Cmp.core_fp.err = t2Cmp.legacy_fp.err
        /\ t2Cmp.core_fp.err = t2Out.out.err
        /\ t2Cmp.core_fp.prob1 = t2Cmp.legacy_fp.prob1
        /\ t2Cmp.core_fp.prob2 = t2Cmp.legacy_fp.prob2
        /\ t2Cmp.legacy_fp = legacy_Task2_fp(0, t2Args.table, t2Args.probs)
        /\ t2Cmp.core_fp = Task2_fp(0, t2Args.table, t2Args.probs)

\* Both returned for a table of three cases with num = 3, and the two
\* rounded prob3 differ while the exact ones are 2/3.
C30_Witness ==
    /\ t2Out.done
    /\ t2Args.num = 3
    /\ t2Out.out.err = "none"
    /\ t2Out.out.prob3 = Flt(2, 3)
    /\ t2Cmp.legacy.prob3 = Flt(2, 3)
    /\ t2Cmp.core_fp.err = "none"
    /\ t2Cmp.core_fp.prob3 # t2Cmp.legacy_fp.prob3

-----------------------------------------------------------------------------
(* Claims about the simulation endpoints (SpecQuota, SpecStore) *)

\* The simulations of an organization accepted and queued this month.
Accepted(org_id) == Cardinality({r \in DOMAIN tasks : tasks[r].org_id = org_id})

\* C25: for an organization on a tier with a finite monthly simulation
\* limit, the number of simulations accepted and queued in the month never
\* exceeds that limit, whatever the sequence of requests.
C25_WithinMonthlyLimit ==
    \A c \in Clients :
        LET u == reqs[c].user
            limit == get_usage_limits(u.tier).simulations_per_month
        IN  limit # -1 => Accepted(u.org_id) <= limit

\* C26: start_simulation answers 429 when check_usage_limit reports the
\* monthly limit exceeded and 400 when request.iterations exceeds the
\* tier's max_iterations, and neither answer names a stored run.
C26_LimitStatusCodes ==
    resp.op = "simulate" =>
        /\ resp.raised = 429 => resp.code = 429 /\ resp.run = NoRun
        /\ resp.raised = 400 => resp.code = 400 /\ resp.run = NoRun

\* C27: once the background task of an accepted simulation has run, the
\* stored run has a terminal status, completed or failed: it does not stay
\* pending.
C27_RanTaskTerminal ==
    \A r \in DOMAIN store :
        (r \in DOMAIN tasks /\ tasks[r].pc = "ran") =>
            store[r].status \in {"completed", "failed"}

\* C28: a run of the in-memory store is returned or deleted only for the
\* caller whose sub is the run's user_id; any other caller gets 403, or 404
\* for an unknown run_id, and the store is left unchanged.
C28_OwnerOnly ==
    [][(resp' # resp /\ resp'.op \in {"get", "pdf", "delete"}) =>
          LET r == resp'.run
              sub == reqs[resp'.client].user.sub
              stored == r \in DOMAIN store
          IN  /\ ~stored => resp'.code = 404 /\ store' = store
              /\ (stored /\ store[r].user_id # sub) =>
                     resp'.code = 403 /\ store' = store
              /\ resp'.code = 200 => stored /\ store[r].user_id = sub
              /\ store' # store =>
                     /\ resp'.op = "delete"
                     /\ stored /\ store[r].user_id = sub
                     /\ store' = [x \in DOMAIN store \ {r} |-> store[x]]]_vars

\* A user was refused the deletion of another user's run, which is still
\* stored.
C28_Witness ==
    /\ resp.op = "delete"
    /\ resp.code = 403
    /\ resp.run \in DOMAIN store
    /\ store[resp.run].user_id # reqs[resp.client].user.sub

====
